---- MODULE Spec2Model ----
(***************************************************************************)
(* Eleventy build-orchestration core: the Template Map ordering, the       *)
(* TemplateWriter build pass and the TemplateContent caches.               *)
(*                                                                         *)
(*   SpecMap     : TemplateMap.add / cache / getTemplateOrder              *)
(*   SpecWriter  : TemplateWriter.generateTemplates (one build pass)       *)
(*   SpecCompile : TemplateContent.compile, the raw-content cache and the  *)
(*                 event-bus handlers                                      *)
(***************************************************************************)
EXTENDS Integers, Sequences, FiniteSets, TLC

\* ------------------------------------------------------------------------
\* Bounds
\* ------------------------------------------------------------------------
NumDocs == 3
MaxPasses == 2
NumCalls == 2

\* ------------------------------------------------------------------------
\* Documents and collections
\* ------------------------------------------------------------------------
FileNames == <<"post.md", "another-post.md", "index.md", "about.md", "feed.md",
               "_includes/layout.njk", "img/logo.png">>
\* input paths of the documents, as the file search returns them
InputPath(i) == "./" \o FileNames[i]
Paths == {InputPath(i) : i \in 1..NumDocs}

NamedSeq == <<"post", "news">>
Named == {NamedSeq[i] : i \in 1..Len(NamedSeq)}
AllName == "all"
KeysName == "[keys]"
COLLECTION_PREFIX == "__collection:"

\* data of a document as far as the ordering is concerned
TagChoices == {{}, {"post"}, {"news"}}
ReadChoices == {{}, {"post"}, {"news"}, {AllName}, {KeysName}}

VARIABLES
    map,          \* TemplateMap.map: sequence of map entries, in add order
    tmState,      \* "open" | "caching" | "cached"
    order,        \* the computed order with the collection markers
    collections   \* collection name -> sequence of input paths added so far

mapVars == <<map, tmState, order, collections>>

VARIABLES
    wpc,                \* position of generateTemplates: "idle" | "adding" | "added" |
                        \* "caching" | "rendering"
    passes,             \* build passes started so far
    isRunInitialBuild,  \* TemplateWriter.isRunInitialBuild
    templatePathCache,  \* TemplateWriter._templatePathCache: paths with an instance
    override,           \* path -> renderable override: "render" | "optional" | "skip"
    pendingAdds,        \* paths whose templateMap.add() promise is pending
    renderState,        \* path -> "none" | "started" | "ok" | "premature" | "failed"
    tooEarly,           \* usedTemplateContentTooEarlyMap
    secondState,        \* path -> state of its second-pass render promise
    buildState,         \* the promise of writeTemplates: "none" | "pending" |
                        \* "resolved" | "rejected"
    buildError          \* the error writeTemplates rejected with

buildVars == <<secondState, buildState, buildError>>

writerVars == <<wpc, passes, isRunInitialBuild, templatePathCache, override,
                pendingAdds, renderState, tooEarly, buildVars>>

VARIABLES
    useTemplateCache,   \* config.useTemplateCache
    cacheable,          \* engine.cacheable
    useCache,           \* useCache of engine.getCompileCacheKey
    calls,              \* the compile() calls: call id -> record
    compileOuter,       \* TemplateContent._compileCache: the input paths that have a nested map
    compileEntries,     \* the entries of the nested maps: [path, key, holder]
    inputCache,         \* TemplateContent._inputCache: the absolute paths with cached raw content
    reading,            \* the content requests with a readFile in flight
    needsToReadFileContents,  \* engine.needsToReadFileContents()
    virtualTemplates,   \* config.virtualTemplates: the input paths declared inline
    fileContent         \* the file system: input path -> content of the file

compileVars == <<useTemplateCache, cacheable, useCache, calls, compileOuter,
                 compileEntries, inputCache, reading, needsToReadFileContents,
                 virtualTemplates, fileContent>>

VARIABLES
    tc,        \* document instance -> its memo fields (TemplateContent instance)
    proms,     \* the promises created by the instances, in creation order
    rcalls,    \* the read() / getFrontMatterData() calls made, in call order
    resets     \* resetCaches() calls made so far

contentVars == <<tc, proms, rcalls, resets>>

VARIABLES
    query      \* one isFileRelevantToThisTemplate call: its inputs and its result

queryVars == <<query>>

VARIABLES
    ipc,                    \* position of _addToTemplateMap: "idle" | "adding" | "done"
    todo,                   \* the paths the first loop has not reached yet
    templates,              \* the templates of the pass
    incrementalFile,        \* TemplateWriter.incrementalFile, "" when not set
    incrementalFileShape,   \* "template" | "copy" | "none"
    uses,                   \* config.uses: edges <<from, to>>, from depends on to
    engineEntries,       \* engine.extensionEntries
    secondOrderRelevantLookup,
    skippedCount,           \* TemplateWriter.skippedCount
    resetBeforeAdd,         \* path -> cache kinds reset before add() in this pass
    resetAfterAdd,          \* path -> cache kinds reset after add() in this pass
    instances,              \* path -> number of Template instances constructed
    wasCached               \* path -> the wasCached flags _createTemplate returned

incrVars == <<ipc, todo, templates, incrementalFile, incrementalFileShape, uses,
              engineEntries, secondOrderRelevantLookup, skippedCount,
              resetBeforeAdd, resetAfterAdd, instances, wasCached>>

vars == <<mapVars, writerVars, compileVars, contentVars, queryVars, incrVars>>

\* ------------------------------------------------------------------------
\* Template Map: the ordering algorithm
\* ------------------------------------------------------------------------
Marker(c) == COLLECTION_PREFIX \o c

\* a document always writes to "all" and to the named collections it declares
Writes(e) == e.tags \cup {AllName}

\* edge a -> b: a must be rendered before b. b reads a collection that a
\* writes to (its tags, or the implicit all-collection that every entry
\* writes), or b reads the all or [keys] barrier and a writes to a named
\* collection
MustPrecede(a, b) ==
    /\ a.path # b.path
    /\ \/ b.reads \cap Writes(a) # {}
       \/ /\ b.reads \cap {AllName, KeysName} # {}
          /\ a.tags # {}

RECURSIVE ReachFrom(_, _, _)
ReachFrom(m, frontier, seen) ==
    LET nxt == {j \in (1..Len(m)) \ seen : \E i \in frontier : MustPrecede(m[i], m[j])}
    IN  IF nxt = {} THEN seen ELSE ReachFrom(m, nxt, seen \cup nxt)

\* the transitive closure: reach[i] holds every j reachable from i along one
\* or more edges
ReachRel(m) == [i \in 1..Len(m) |-> ReachFrom(m, {i}, {})]

Reaches(m, i, j) == j \in ReachRel(m)[i]

\* i and j lie on a common cycle
SameCycle(m, i, j) == Reaches(m, i, j) /\ Reaches(m, j, i)

\* mutant: the dependencies are ignored, plain insertion order
EligibleAlways(reach, rem, i) == i \in rem

\* every remaining predecessor of i is in i's own cyclic subset
Eligible(reach, rem, i) == \A j \in rem \ {i} : i \in reach[j] => j \in reach[i]

MinOf(S) == CHOOSE x \in S : \A y \in S : x <= y
MaxOf(S) == CHOOSE x \in S : \A y \in S : x >= y

\* mutant: the tie-break takes the latest added of the eligible entries
NextEntryLatest(reach, rem) == MaxOf({i \in rem : Eligible(reach, rem, i)})

\* mutant: the entries of a cyclic subset are taken latest first
NextEntryCycleReversed(reach, rem) ==
    LET el == {i \in rem : Eligible(reach, rem, i)}
        free == {i \in el : i \notin reach[i]}
    IN  IF free # {} THEN MinOf(free) ELSE MaxOf(el)

\* tie-break: the earliest added of the eligible entries
NextEntry(reach, rem) == MinOf({i \in rem : Eligible(reach, rem, i)})

SeenCollections(m) == UNION {(m[i].tags \cup m[i].reads) \cap Named : i \in 1..Len(m)}

\* mutant: a marker is emitted as soon as the first writer has been emitted
CompleteCollectionsEager(m, rem, marked) ==
    {k \in 1..Len(NamedSeq) :
        /\ NamedSeq[k] \in SeenCollections(m) \ marked
        /\ \E i \in (1..Len(m)) \ rem : NamedSeq[k] \in m[i].tags}

CompleteCollections(m, rem, marked) ==
    {k \in 1..Len(NamedSeq) :
        /\ NamedSeq[k] \in SeenCollections(m) \ marked
        /\ \A i \in rem : NamedSeq[k] \notin m[i].tags}

RECURSIVE Walk(_, _, _, _, _)
Walk(m, reach, rem, marked, acc) ==
    LET ready == CompleteCollections(m, rem, marked)
    IN  IF ready # {}
        THEN LET c == NamedSeq[MinOf(ready)]
             IN  Walk(m, reach, rem, marked \cup {c}, Append(acc, Marker(c)))
        ELSE IF KeysName \notin marked /\ SeenCollections(m) \subseteq marked
        THEN Walk(m, reach, rem, marked \cup {KeysName}, Append(acc, Marker(KeysName)))
        ELSE IF rem = {}
        THEN Append(acc, Marker(AllName))
        ELSE LET i == NextEntry(reach, rem)
             IN  Walk(m, reach, rem \ {i}, marked, Append(acc, m[i].path))

ComputeOrder(m) == Walk(m, ReachRel(m), 1..Len(m), {}, <<>>)

getTemplateOrder == order

EntryOf(m, p) == CHOOSE i \in 1..Len(m) : m[i].path = p
IsDocument(x) == x \in Paths
EmptyCollections == [c \in Named \cup {AllName} |-> <<>>]

\* TemplateMap.add(template): resolves the data and registers the entry
TmAdd(p, tags, reads) ==
    /\ tmState = "open"
    /\ \A i \in 1..Len(map) : map[i].path # p
    /\ map' = Append(map, [path |-> p, tags |-> tags, reads |-> reads])
    /\ UNCHANGED <<tmState, order, collections>>

\* TemplateMap.cache(), steps 1-3: the order is computed
TmCacheBegin ==
    /\ tmState = "open"
    /\ tmState' = "caching"
    /\ order' = ComputeOrder(map)
    /\ collections' = EmptyCollections
    /\ UNCHANGED map

\* TemplateMap.cache(), step 5: the entries are walked in the computed order
\* and each is appended to every collection it writes to
RECURSIVE Populate(_, _, _, _)
Populate(m, ord, k, colls) ==
    IF k > Len(ord) THEN colls
    ELSE IF IsDocument(ord[k])
    THEN Populate(m, ord, k + 1,
            [c \in DOMAIN colls |->
                IF c \in Writes(m[EntryOf(m, ord[k])])
                THEN Append(colls[c], ord[k]) ELSE colls[c]])
    ELSE Populate(m, ord, k + 1, colls)

\* TemplateMap.cache() resolves: the collections are populated
TmCacheEnd ==
    /\ tmState = "caching"
    /\ tmState' = "cached"
    /\ collections' = Populate(map, order, 1, EmptyCollections)
    /\ UNCHANGED <<map, order>>

\* a new TemplateMap
MapInit ==
    /\ map = <<>>
    /\ tmState = "open"
    /\ order = <<>>
    /\ collections = EmptyCollections

\* ------------------------------------------------------------------------
\* TemplateContent: the compile cache, the raw-content cache, the event bus
\* ------------------------------------------------------------------------
\* userConfig._getUniqueId() of the configuration instances
Configs == {"u1", "u2"}
ContentPaths == {InputPath(1), InputPath(2)}
\* a resource-modified event names a file with or without the leading "./"
EventPaths == ContentPaths \cup {FileNames[1], FileNames[2]}

\* the contents of a file: the empty string or some text
Contents == {"", "text"}
Undefined == "<undefined>"
VirtualContent == "inline"
\* the files of the compile-cache scenarios: ./post.md is empty
DefaultFiles == [p \in ContentPaths |-> IF p = InputPath(1) THEN "" ELSE "text"]

HasLeadingDotSlash(p) == \E i \in 1..Len(FileNames) : p = InputPath(i)
StripLeadingDotSlash(p) ==
    IF HasLeadingDotSlash(p)
    THEN FileNames[CHOOSE i \in 1..Len(FileNames) : p = InputPath(i)]
    ELSE p

\* mutant: the path of the event is used as it comes
AddLeadingDotSlashIdentity(p) == p

\* TemplatePath.addLeadingDotSlash
AddLeadingDotSlash(p) == IF HasLeadingDotSlash(p) THEN p ELSE "./" \o p

\* TemplatePath.absolutePath
AbsolutePath(p) == "/cwd/" \o StripLeadingDotSlash(p)

\* engine.getCompileCacheKey(str, inputPath).key
EngineKey(str, path) == <<path, str>>

\* mutant: the key is not tied to the configuration instance
CompileKeyShared(cfg, str, path) == EngineKey(str, path)

\* _getCompileCache: key = userConfig._getUniqueId() + key
CompileKey(cfg, str, path) == <<cfg>> \o EngineKey(str, path)

NoError == [name |-> "", path |-> "", cause |-> ""]
NewCall ==
    [pc |-> "new", path |-> "", cfg |-> "", str |-> "", shortcut |-> FALSE,
     via |-> "none", hasRes |-> FALSE, result |-> 0, awaiting |-> 0,
     error |-> NoError, valid |-> FALSE, prior |-> {}, joined |-> {},
     holderPc |-> "none"]
CallIds == 1..NumCalls

KeyOf(c) == CompileKey(calls[c].cfg, calls[c].str, calls[c].path)
SameKey(c, d) == calls[c].path = calls[d].path /\ KeyOf(c) = KeyOf(d)
EntriesAt(entries, p, k) == {e \in entries : e.path = p /\ e.key = k}

\* the engine's compile was invoked by call c
Invoked(c) == calls[c].pc \in {"compiling", "failed"} \/ calls[c].via = "engine"

CompileIdle ==
    /\ useTemplateCache = TRUE
    /\ cacheable = TRUE
    /\ useCache = TRUE
    /\ calls = [c \in CallIds |-> NewCall]
    /\ compileOuter = {}
    /\ compileEntries = {}
    /\ inputCache = {}
    /\ reading = {}
    /\ needsToReadFileContents = TRUE
    /\ virtualTemplates = {}
    /\ fileContent = DefaultFiles

CompileInit ==
    /\ useTemplateCache \in BOOLEAN
    /\ cacheable \in BOOLEAN
    /\ useCache \in BOOLEAN
    /\ calls = [c \in CallIds |-> NewCall]
    /\ compileOuter = {}
    /\ compileEntries = {}
    /\ inputCache = {}
    /\ reading = {}
    /\ needsToReadFileContents = TRUE
    /\ virtualTemplates = {}
    /\ fileContent = DefaultFiles

flagVars == <<useTemplateCache, cacheable, useCache, needsToReadFileContents,
              virtualTemplates, fileContent>>

\* mutant: the lookup never finds the key
CacheLookupMiss(entries, p, k) == {}

\* cache.has(key) / cache.get(key) on the nested map of the input path
CacheLookup(entries, p, k) == EntriesAt(entries, p, k)

\* mutant: no placeholder is stored before the compile has finished
StorePlaceholderLate(entries, p, k, c) == entries

\* cache.set(key, new Promise(...)): the placeholder of call c replaces the entry
StorePlaceholder(entries, p, k, c) ==
    (entries \ EntriesAt(entries, p, k)) \cup {[path |-> p, key |-> k, holder |-> c]}

\* the inputs of a compile() call: input path, configuration instance,
\* content, and whether bypassMarkdown is set and the content needs no
\* compilation
CallInputs ==
    {[path |-> InputPath(1), cfg |-> "u1", str |-> "a", shortcut |-> FALSE],
     [path |-> InputPath(1), cfg |-> "u2", str |-> "a", shortcut |-> FALSE],
     [path |-> InputPath(1), cfg |-> "u1", str |-> "b", shortcut |-> FALSE],
     [path |-> InputPath(2), cfg |-> "u1", str |-> "a", shortcut |-> FALSE],
     [path |-> InputPath(1), cfg |-> "u1", str |-> "a", shortcut |-> TRUE]}

Started(c, in) ==
    [NewCall EXCEPT !.path = in.path, !.cfg = in.cfg, !.str = in.str,
                    !.shortcut = in.shortcut]

\* the call has passed `await this.getTemplateRender()`
Arrived(d) == calls[d].pc \notin {"new", "called"}

\* compile(str, bypassMarkdown, engineOverride) is called, line 390-391: the
\* call waits for getTemplateRender() (which awaits init() on an instance
\* that has no template render yet); call c is the c-th call made
CompileCall(c, in) ==
    /\ calls[c].pc = "new"
    /\ IF c = 1 THEN TRUE ELSE calls[c - 1].pc # "new"
    /\ calls' = [calls EXCEPT ![c] = [Started(c, in) EXCEPT !.pc = "called"]]
    /\ UNCHANGED <<flagVars, compileOuter, compileEntries, inputCache, reading>>

\* compile(), line 391-440: from the moment `await this.getTemplateRender()`
\* resumes up to `await tr.getCompiledTemplate(str)`; the calls resume in
\* any order (the instances differ in whether their template render is
\* initialised)
CompileStart(c) ==
    LET in == calls[c]
        p == in.path
        k == CompileKey(in.cfg, in.str, in.path)
        hit == CacheLookup(compileEntries, p, k)
        new == Started(c, in)
        same(d) == calls[d].path = p /\ KeyOf(d) = k
    IN
    /\ calls[c].pc = "called"
    /\ UNCHANGED <<flagVars, inputCache, reading>>
    /\ IF in.shortcut
       THEN \* bypassMarkdown and no compilation needed: a new function
            /\ calls' = [calls EXCEPT ![c] =
                    [new EXCEPT !.pc = "done", !.via = "shortcut", !.result = 0 - c]]
            /\ UNCHANGED <<compileOuter, compileEntries>>
       ELSE IF ~useTemplateCache
       THEN /\ calls' = [calls EXCEPT ![c] = [new EXCEPT !.pc = "compiling"]]
            /\ UNCHANGED <<compileOuter, compileEntries>>
       ELSE /\ compileOuter' = compileOuter \cup {p}
            /\ IF ~cacheable
               THEN /\ calls' = [calls EXCEPT ![c] = [new EXCEPT !.pc = "compiling"]]
                    /\ UNCHANGED compileEntries
               ELSE IF useCache /\ hit # {}
               THEN \* cache hit: the cached promise is returned
                    LET h == (CHOOSE e \in hit : TRUE).holder
                    IN  /\ calls' = [calls EXCEPT ![c] =
                                [new EXCEPT
                                    !.pc = "awaiting", !.via = "cache",
                                    !.awaiting = h, !.valid = TRUE,
                                    !.holderPc = calls[h].pc,
                                    !.prior = {d \in CallIds \ {c} :
                                        calls[d].pc = "done" /\ calls[d].valid /\ same(d)},
                                    !.joined = {d \in CallIds \ {c} :
                                        calls[d].pc = "compiling" /\ calls[d].valid /\ same(d)}]]
                        /\ UNCHANGED compileEntries
               ELSE \* cache miss: the placeholder is stored, then the engine compiles
                    /\ compileEntries' = StorePlaceholder(compileEntries, p, k, c)
                    /\ calls' = [d \in CallIds |->
                            IF d = c
                            THEN [new EXCEPT
                                    !.pc = "compiling", !.hasRes = TRUE, !.valid = TRUE,
                                    !.prior = {x \in CallIds \ {c} :
                                        calls[x].pc = "done" /\ calls[x].valid /\ same(x)},
                                    !.joined = {x \in CallIds \ {c} :
                                        calls[x].pc = "compiling" /\ calls[x].valid /\ same(x)}]
                            ELSE IF Arrived(d) /\ same(d)
                                    /\ compileEntries' # compileEntries
                            THEN [calls[d] EXCEPT !.valid = FALSE]
                            ELSE calls[d]]

\* tr.getCompiledTemplate(str) resolves: res(fn), return fn
CompileResolves(c) ==
    /\ calls[c].pc = "compiling"
    /\ calls' = [calls EXCEPT ![c].pc = "done", ![c].via = "engine", ![c].result = c]
    /\ UNCHANGED <<flagVars, compileOuter, compileEntries, inputCache, reading>>

\* mutant: the catch block leaves the entry in the cache
EvictOnFailureKeep(entries, p, k) == entries

\* the catch block: cache.delete(key)
EvictOnFailure(entries, p, k) == entries \ EntriesAt(entries, p, k)

\* tr.getCompiledTemplate(str) rejects: the catch block evicts the key and
\* throws a TemplateContentCompileError
CompileFails(c) ==
    LET p == calls[c].path
        k == KeyOf(c)
    IN
    /\ calls[c].pc = "compiling"
    /\ compileOuter' = compileOuter \cup {p}
    /\ compileEntries' = IF cacheable THEN EvictOnFailure(compileEntries, p, k)
                         ELSE compileEntries
    /\ calls' = [d \in CallIds |->
            IF d = c
            THEN [calls[c] EXCEPT !.pc = "failed", !.valid = FALSE,
                    !.error = [name |-> "TemplateContentCompileError",
                               path |-> p, cause |-> "EngineError"]]
            ELSE IF cacheable /\ Arrived(d) /\ SameKey(c, d)
            THEN [calls[d] EXCEPT !.valid = FALSE]
            ELSE calls[d]]
    /\ UNCHANGED <<flagVars, inputCache, reading>>

\* the promise returned on a cache hit resolves once its placeholder has
CompileHitResolves(c) ==
    /\ calls[c].pc = "awaiting"
    /\ calls[calls[c].awaiting].pc = "done"
    /\ calls' = [calls EXCEPT ![c].pc = "done",
                              ![c].result = calls[calls[c].awaiting].result]
    /\ UNCHANGED <<flagVars, compileOuter, compileEntries, inputCache, reading>>

\* TemplateContent.getCached(path): the content stored for the path (the
\* files do not change while the model runs, so it is the file's content)
GetCached(p) == IF AbsolutePath(p) \in inputCache THEN fileContent[p] ELSE Undefined

\* a JavaScript value used as a condition
Truthy(content) == content \notin {Undefined, ""}

\* mutant: a cached empty string counts as a miss
NeedsReadFalsy(content) == ~Truthy(content)

\* `!content && content !== ""`
NeedsRead(content) == ~Truthy(content) /\ content # ""

\* what getInputContent has in hand before readFile: "" for an engine that does
\* not read files, the inline content of a virtual template, else the cached
\* content if the template cache is used
ContentInHand(p) ==
    IF ~needsToReadFileContents THEN ""
    ELSE IF p \in virtualTemplates THEN VirtualContent
    ELSE IF useTemplateCache THEN GetCached(p)
    ELSE Undefined

\* getInputContent reads the file
ReadsFile(p) ==
    /\ needsToReadFileContents
    /\ p \notin virtualTemplates
    /\ NeedsRead(ContentInHand(p))

\* getInputContent of content request r for path p, up to readFile: the
\* raw-content cache is asked, on a miss readFile starts
GetInputContentStart(r, p) ==
    /\ r \notin reading
    /\ reading' = IF ReadsFile(p) THEN reading \cup {r} ELSE reading
    /\ UNCHANGED <<flagVars, calls, compileOuter, compileEntries, inputCache>>

\* readFile settles: on success TemplateContent.cache(path, content)
GetInputContentFinish(r, p, ok) ==
    /\ r \in reading
    /\ reading' = reading \ {r}
    /\ inputCache' = IF ok /\ useTemplateCache THEN inputCache \cup {AbsolutePath(p)}
                     ELSE inputCache
    /\ UNCHANGED <<flagVars, calls, compileOuter, compileEntries>>

\* eventBus.on("eleventy.resourceModified")
ResourceModified(ep) ==
    LET normalized == AddLeadingDotSlash(ep)
    IN
    /\ inputCache' = inputCache \ {AbsolutePath(ep)}
    /\ compileEntries' = IF normalized \in compileOuter
                         THEN {e \in compileEntries : e.path # normalized}
                         ELSE compileEntries
    /\ calls' = [d \in CallIds |->
            IF calls[d].path = normalized /\ normalized \in compileOuter
            THEN [calls[d] EXCEPT !.valid = FALSE] ELSE calls[d]]
    /\ UNCHANGED <<flagVars, compileOuter, reading>>

\* mutant: the placeholders of the compiles in flight survive the reset
NewCompileCacheKeepsPending(entries) ==
    {e \in entries : calls[e.holder].pc = "compiling"}

\* TemplateContent._compileCache = new Map(): every nested map is dropped
NewCompileCache(entries) == {}

\* eventBus.on("eleventy.compileCacheReset")
CompileCacheReset ==
    /\ compileOuter' = {}
    /\ compileEntries' = NewCompileCache(compileEntries)
    /\ calls' = [d \in CallIds |-> [calls[d] EXCEPT !.valid = FALSE]]
    /\ UNCHANGED <<flagVars, inputCache, reading>>

OtherVarsIdle == UNCHANGED <<mapVars, writerVars, contentVars, queryVars, incrVars>>

CCompileCall == (\E c \in CallIds, in \in CallInputs : CompileCall(c, in)) /\ OtherVarsIdle
CCompileStart == (\E c \in CallIds : CompileStart(c)) /\ OtherVarsIdle
CCompileResolves == (\E c \in CallIds : CompileResolves(c)) /\ OtherVarsIdle
CCompileFails == (\E c \in CallIds : CompileFails(c)) /\ OtherVarsIdle
CCompileHitResolves == (\E c \in CallIds : CompileHitResolves(c)) /\ OtherVarsIdle
\* in the compile-cache scenarios every path has one document, which is the
\* content request
CGetInputContentStart == (\E p \in ContentPaths : GetInputContentStart(p, p)) /\ OtherVarsIdle
CGetInputContentFinish ==
    (\E p \in ContentPaths, ok \in BOOLEAN : GetInputContentFinish(p, p, ok)) /\ OtherVarsIdle
CResourceModified == (\E ep \in EventPaths : ResourceModified(ep)) /\ OtherVarsIdle
CCompileCacheReset == CompileCacheReset /\ OtherVarsIdle

CompileNext ==
    \/ CCompileCall
    \/ CCompileStart
    \/ CCompileResolves
    \/ CCompileFails
    \/ CCompileHitResolves
    \/ CGetInputContentStart
    \/ CGetInputContentFinish
    \/ CResourceModified
    \/ CCompileCacheReset


\* ------------------------------------------------------------------------
\* TemplateContent: the memo fields of a document instance
\* ------------------------------------------------------------------------
MaxReadCalls == 2
MaxResets == 1

\* two instances of the same document; on the second one only read() is called
Insts == {"t1", "t2"}
Documents == {"t1"}
PathOf(inst) == InputPath(1)

Kinds == {"data", "read", "render"}
\* the argument of resetCaches: absent, or an object with some of the kinds
\* as keys, some of them truthy
ResetArgs ==
    {[given |-> FALSE, keys |-> {}, on |-> {}],
     [given |-> TRUE, keys |-> {}, on |-> {}],
     [given |-> TRUE, keys |-> {"read"}, on |-> {"read"}],
     [given |-> TRUE, keys |-> {"read"}, on |-> {}],
     [given |-> TRUE, keys |-> {"data"}, on |-> {"data"}],
     [given |-> TRUE, keys |-> {"render"}, on |-> {"render"}],
     [given |-> TRUE, keys |-> {"data", "render"}, on |-> {"data", "render"}],
     [given |-> TRUE, keys |-> {"data", "read"}, on |-> {"read"}]}

\* getResetTypes(types)
getResetTypes(arg) ==
    IF arg.given
    THEN [k \in Kinds |-> IF k \in arg.keys THEN k \in arg.on ELSE FALSE]
    ELSE [k \in Kinds |-> TRUE]

NewInstance ==
    [inputContent |-> 0, readingPromise |-> 0, frontMatterDataCache |-> 0,
     frontMatter |-> "none", dataCache |-> FALSE,
     hasTemplateRender |-> FALSE,
     epoch |-> 0]

\* a promise: content (getInputContent), read (readingPromise) or data
\* (_frontMatterDataCache); awaits is the promise its executor awaits
NewPromise(kind, inst, awaits, epoch) ==
    [kind |-> kind, inst |-> inst, awaits |-> awaits, epoch |-> epoch,
     state |-> IF kind = "content" THEN "init" ELSE "pending",
     value |-> Undefined, error |-> NoError, from |-> "none", matter |-> "none",
     merged |-> FALSE]

PromIds == 1..Len(proms)
Settled(pr) == pr.state \in {"resolved", "rejected"}

ContentIdle ==
    /\ tc = [i \in Insts |-> NewInstance]
    /\ proms = <<>>
    /\ rcalls = <<>>
    /\ resets = 0

\* mutant: the memo field is not looked at
HasMemoNever(id) == FALSE

\* `!this.readingPromise`, `!this.inputContent`, `!this._frontMatterDataCache`
\* for a field that holds a promise (0: the field is not set)
HasMemo(id) == id # 0

\* the content setInputContent may be given
RawContents == {"", "raw text"}

\* the records of the values setInputContent has assigned
SetCalls == {id \in PromIds : proms[id].from = "set"}

\* the calls made on the instances so far: read(), getFrontMatterData() and
\* setInputContent(), of which MaxReadCalls are made
CallsMade == Len(rcalls) + Cardinality(SetCalls)

\* setInputContent(content): the field holds the value itself, which an
\* await takes as it is
SetInputContent(inst, content) ==
    /\ CallsMade < MaxReadCalls
    /\ proms' = Append(proms,
            [NewPromise("content", inst, 0, tc[inst].epoch)
                EXCEPT !.state = "resolved", !.value = content, !.from = "set"])
    /\ tc' = [tc EXCEPT ![inst].inputContent = Len(proms) + 1]
    /\ UNCHANGED <<rcalls, resets, compileVars>>

\* `!this.inputContent` for the field's value: a promise is truthy, a value
\* that setInputContent assigned is truthy unless it is the empty string
InputContentFalsy(ps, id) == id # 0 /\ ps[id].from = "set" /\ ~Truthy(ps[id].value)

\* getTemplateRender(), line 158-162, called on an instance that has no
\* template render: this._templateRender is set before init() is awaited
GetTemplateRender(inst) ==
    /\ ~tc[inst].hasTemplateRender
    /\ tc' = [tc EXCEPT ![inst].hasTemplateRender = TRUE]
    /\ UNCHANGED <<proms, rcalls, resets, compileVars>>

\* read(), line 208-211: this.inputContent = this.getInputContent(), whose
\* first line calls getTemplateRender() in the same turn
WithContent(ps, t, inst) ==
    IF HasMemo(t.inputContent) /\ ~InputContentFalsy(ps, t.inputContent)
    THEN [ps |-> ps, t |-> t]
    ELSE [ps |-> Append(ps, NewPromise("content", inst, 0, t.epoch)),
          t |-> [t EXCEPT !.inputContent = Len(ps) + 1,
                          !.hasTemplateRender = TRUE]]

\* read(), line 207-269: this.readingPromise = new Promise(...)
WithRead(ps, t, inst) ==
    IF HasMemo(t.readingPromise)
    THEN [ps |-> ps, t |-> t]
    ELSE LET a == WithContent(ps, t, inst)
         IN  [ps |-> Append(a.ps, NewPromise("read", inst, a.t.inputContent, t.epoch)),
              t |-> [a.t EXCEPT !.readingPromise = Len(a.ps) + 1]]

\* getFrontMatterData(), line 340-361: the executor calls read() at once
WithData(ps, t, inst) ==
    IF HasMemo(t.frontMatterDataCache)
    THEN [ps |-> ps, t |-> t]
    ELSE LET a == WithRead(ps, t, inst)
         IN  [ps |-> Append(a.ps, NewPromise("data", inst, a.t.readingPromise, t.epoch)),
              t |-> [a.t EXCEPT !.frontMatterDataCache = Len(a.ps) + 1]]

\* an async function returns a promise of its own, which adopts the promise
\* the body returns
AsyncReturn(callNo, id) == [wrapper |-> callNo, adopts |-> id]

\* read()
Read(inst) ==
    LET a == WithRead(proms, tc[inst], inst)
    IN  /\ CallsMade < MaxReadCalls
        /\ proms' = a.ps
        /\ tc' = [tc EXCEPT ![inst] = a.t]
        /\ rcalls' = Append(rcalls,
                [inst |-> inst, fn |-> "read", epoch |-> tc[inst].epoch,
                 ret |-> AsyncReturn(Len(rcalls) + 1, a.t.readingPromise)])
        /\ UNCHANGED <<resets, compileVars>>

\* getFrontMatterData()
GetFrontMatterData(inst) ==
    LET a == WithData(proms, tc[inst], inst)
    IN  /\ CallsMade < MaxReadCalls
        /\ proms' = a.ps
        /\ tc' = [tc EXCEPT ![inst] = a.t]
        /\ rcalls' = Append(rcalls,
                [inst |-> inst, fn |-> "data", epoch |-> tc[inst].epoch,
                 ret |-> AsyncReturn(Len(rcalls) + 1, a.t.frontMatterDataCache)])
        /\ UNCHANGED <<resets, compileVars>>

\* where getInputContent takes the content from when it does not read the file
ContentSource(p) ==
    IF ~needsToReadFileContents THEN "engine"
    ELSE IF p \in virtualTemplates THEN "virtual"
    ELSE "cache"

\* getInputContent of a content promise, up to readFile
ContentStart(id) ==
    LET pr == proms[id]
        p == PathOf(pr.inst)
    IN  /\ pr.kind = "content" /\ pr.state = "init"
        /\ GetInputContentStart(id, p)
        /\ proms' = [proms EXCEPT ![id] =
                IF ReadsFile(p)
                THEN [pr EXCEPT !.state = "reading"]
                ELSE [pr EXCEPT !.state = "resolved", !.value = ContentInHand(p),
                                !.from = ContentSource(p)]]
        /\ UNCHANGED <<tc, rcalls, resets>>

ReadFileError(p) == [name |-> "ENOENT", path |-> p, cause |-> ""]

\* readFile of a content promise settles
ContentFinish(id, ok) ==
    LET pr == proms[id]
        p == PathOf(pr.inst)
    IN  /\ pr.kind = "content" /\ pr.state = "reading"
        /\ GetInputContentFinish(id, p, ok)
        /\ proms' = [proms EXCEPT ![id] =
                IF ok
                THEN [pr EXCEPT !.state = "resolved", !.value = fileContent[p],
                                !.from = "file"]
                ELSE [pr EXCEPT !.state = "rejected", !.error = ReadFileError(p)]]
        /\ UNCHANGED <<tc, rcalls, resets>>

\* the exception of the front matter parser
ParserError == "YAMLException"

\* mutant: the parser's exception is passed on as it is
WrapParseErrorRaw(path, e) == [name |-> e, path |-> "", cause |-> ""]

\* new TemplateContentFrontMatterError(`... ${this.inputPath}`, e)
WrapParseError(path, e) ==
    [name |-> "TemplateContentFrontMatterError", path |-> path, cause |-> e]

\* a variant in which a rejected read is forgotten
OnReadRejectedForgets(t) == [t EXCEPT !.readingPromise = 0, !.inputContent = 0]

\* read(), line 265-267: the catch block rejects the promise and leaves
\* this.readingPromise and this.inputContent as they are
OnReadRejected(t) == t

\* the executor of readingPromise once the content has settled: matter()
\* parses the content (parseOk: the parser does not throw)
Parse(id, parseOk) ==
    LET pr == proms[id]
        c == proms[pr.awaits]
        p == PathOf(pr.inst)
    IN  /\ pr.kind = "read" /\ pr.state = "pending"
        /\ Settled(c)
        /\ IF c.state = "rejected"
           THEN /\ parseOk
                /\ proms' = [proms EXCEPT ![id] =
                        [pr EXCEPT !.state = "rejected", !.error = c.error]]
                /\ tc' = [tc EXCEPT ![pr.inst] = OnReadRejected(tc[pr.inst])]
           ELSE IF Truthy(c.value) \/ c.value = ""
           THEN IF parseOk
                THEN /\ proms' = [proms EXCEPT ![id] =
                            [pr EXCEPT !.state = "resolved", !.value = "fm", !.matter = "ok"]]
                     /\ tc' = [tc EXCEPT ![pr.inst].frontMatter = "parsed"]
                ELSE /\ proms' = [proms EXCEPT ![id] =
                            [pr EXCEPT !.state = "rejected", !.matter = "threw",
                                       !.error = WrapParseError(p, ParserError)]]
                     /\ tc' = [tc EXCEPT ![pr.inst] = OnReadRejected(tc[pr.inst])]
           ELSE /\ parseOk
                /\ proms' = [proms EXCEPT ![id] =
                        [pr EXCEPT !.state = "resolved", !.value = "no-fm"]]
                /\ UNCHANGED tc
        /\ UNCHANGED <<rcalls, resets, compileVars>>

\* what the getter templateRender throws on an instance without one
TemplateRenderError(p) ==
    [name |-> "Error", path |-> p, cause |-> "templateRender has not yet initialized"]

\* the executor of _frontMatterDataCache once read() has settled: the error
\* of read() is passed on; else `this.engine` is evaluated, which throws on
\* an instance without a template render, and engine.getExtraDataFromFile is
\* awaited
GetExtraDataFromFile(id) ==
    LET pr == proms[id]
        r == proms[pr.awaits]
    IN  /\ pr.kind = "data" /\ pr.state = "pending"
        /\ Settled(r)
        /\ proms' = [proms EXCEPT ![id] =
                IF r.state = "rejected"
                THEN [pr EXCEPT !.state = "rejected", !.error = r.error]
                ELSE IF ~tc[pr.inst].hasTemplateRender
                THEN [pr EXCEPT !.state = "rejected",
                                !.error = TemplateRenderError(PathOf(pr.inst))]
                ELSE [pr EXCEPT !.state = "extra"]]
        /\ UNCHANGED <<tc, rcalls, resets, compileVars>>

\* what a failing getExtraDataFromFile of the engine throws
ExtraDataError(p) == [name |-> "ExtraDataError", path |-> p, cause |-> ""]

\* the executor of _frontMatterDataCache once getExtraDataFromFile has
\* settled: the data is merged and cleaned, or the engine's error is passed on
Merge(id, ok) ==
    LET pr == proms[id]
    IN  /\ pr.kind = "data" /\ pr.state = "extra"
        /\ proms' = [proms EXCEPT ![id] =
                IF ok
                THEN [pr EXCEPT !.state = "resolved", !.value = "data", !.merged = TRUE]
                ELSE [pr EXCEPT !.state = "rejected",
                                !.error = ExtraDataError(PathOf(pr.inst))]]
        /\ UNCHANGED <<tc, rcalls, resets, compileVars>>

\* resetCaches, kind read: the memo fields are deleted; `delete
\* this.frontMatter` names the accessor and removes nothing
ResetRead(types, t) ==
    IF types["read"]
    THEN [t EXCEPT !.readingPromise = 0, !.inputContent = 0,
                   !.frontMatterDataCache = 0, !.epoch = t.epoch + 1]
    ELSE t

\* resetCaches of the document (Template), kind data: the resolved data
ResetData(types, t) == IF types["data"] THEN [t EXCEPT !.dataCache = FALSE] ELSE t

\* resetCaches(types)
ResetCaches(inst, arg) ==
    LET types == getResetTypes(arg)
    IN  /\ resets < MaxResets
        /\ resets' = resets + 1
        /\ tc' = [tc EXCEPT ![inst] =
                ResetData(types, ResetRead(types, tc[inst]))]
        /\ UNCHANGED <<proms, rcalls, compileVars>>

\* the document resolves its data from the front matter data and keeps it
GetData(inst) ==
    LET id == tc[inst].frontMatterDataCache
    IN  /\ id # 0
        /\ proms[id].state = "resolved"
        /\ ~tc[inst].dataCache
        /\ tc' = [tc EXCEPT ![inst].dataCache = TRUE]
        /\ UNCHANGED <<proms, rcalls, resets, compileVars>>

Scenarios ==
    {[cache |-> TRUE, needs |-> TRUE, virtual |-> {}, content |-> "text"],
     [cache |-> TRUE, needs |-> TRUE, virtual |-> {}, content |-> ""],
     [cache |-> FALSE, needs |-> TRUE, virtual |-> {}, content |-> "text"],
     [cache |-> TRUE, needs |-> FALSE, virtual |-> {}, content |-> "text"],
     [cache |-> TRUE, needs |-> TRUE, virtual |-> {InputPath(1)}, content |-> "text"]}

ContentInit ==
    /\ tc = [i \in Insts |-> NewInstance]
    /\ proms = <<>>
    /\ rcalls = <<>>
    /\ resets = 0
    /\ \E sc \in Scenarios :
        /\ useTemplateCache = sc.cache
        /\ needsToReadFileContents = sc.needs
        /\ virtualTemplates = sc.virtual
        /\ fileContent = [DefaultFiles EXCEPT ![InputPath(1)] = sc.content]
    /\ cacheable = TRUE
    /\ useCache = TRUE
    /\ calls = [c \in CallIds |-> NewCall]
    /\ compileOuter = {}
    /\ compileEntries = {}
    /\ inputCache = {}
    /\ reading = {}

ContentOthersIdle == UNCHANGED <<mapVars, writerVars, queryVars, incrVars>>

RRead == (\E inst \in Insts : Read(inst)) /\ ContentOthersIdle
RGetFrontMatterData == (\E inst \in Documents : GetFrontMatterData(inst)) /\ ContentOthersIdle
RContentStart == (\E id \in PromIds : ContentStart(id)) /\ ContentOthersIdle
RContentFinish == (\E id \in PromIds, ok \in BOOLEAN : ContentFinish(id, ok)) /\ ContentOthersIdle
RParse == (\E id \in PromIds, ok \in BOOLEAN : Parse(id, ok)) /\ ContentOthersIdle
RGetExtraDataFromFile == (\E id \in PromIds : GetExtraDataFromFile(id)) /\ ContentOthersIdle
RMerge == (\E id \in PromIds, ok \in BOOLEAN : Merge(id, ok)) /\ ContentOthersIdle
RGetTemplateRender == (\E inst \in Documents : GetTemplateRender(inst)) /\ ContentOthersIdle
RSetInputContent ==
    (\E inst \in Insts, content \in RawContents : SetInputContent(inst, content))
        /\ ContentOthersIdle
RResetCaches ==
    (\E inst \in Documents, arg \in ResetArgs : ResetCaches(inst, arg)) /\ ContentOthersIdle
RGetData == (\E inst \in Documents : GetData(inst)) /\ ContentOthersIdle

ContentNext ==
    \/ RRead
    \/ RGetFrontMatterData
    \/ RContentStart
    \/ RContentFinish
    \/ RParse
    \/ RGetExtraDataFromFile
    \/ RMerge
    \/ RSetInputContent
    \/ RGetTemplateRender
    \/ RResetCaches
    \/ RGetData
    \/ CResourceModified

\* ------------------------------------------------------------------------
\* TemplateContent.isFileRelevantToThisTemplate
\* ------------------------------------------------------------------------
QueryIdle == query = [phase |-> "idle"]

\* the changed file: not set, the document itself, or another file
IncrementalFiles == {"", InputPath(1), "./_includes/layout.njk"}
\* metadata.isFullTemplate: not given, true or false
FullTemplateFlags == {"undefined", "true", "false"}
\* an extension entry of the engine: without isIncrementalMatch ("plain"), or
\* with a callback that matches always, never, or when the engine says the
\* file is relevant to the input path
EntryKinds == {"plain", "always", "never", "ifRelevant"}
ExtensionEntryLists ==
    {<<>>} \cup {<<a>> : a \in EntryKinds} \cup {<<a, b>> : a \in EntryKinds, b \in EntryKinds}

QueryInputs ==
    [incrementalFile : IncrementalFiles, hasDependencies : BOOLEAN,
     isRelevant : BOOLEAN, isFullTemplate : FullTemplateFlags,
     entries : ExtensionEntryLists, phase : {"asked"}, result : {FALSE}]

\* entry.isIncrementalMatch.call({isFileRelevantToInputPath, ...}, incrementalFile)
IsIncrementalMatch(entry, q) ==
    CASE entry = "always" -> TRUE
      [] entry = "never" -> FALSE
      [] OTHER -> q.isRelevant

\* getExtensionEntries().filter((entry) => !!entry.isIncrementalMatch)
HasIncrementalMatch(entry) == entry # "plain"

\* mutant: without known dependencies the file is not assumed relevant
FallbackRelevantStrict(q) == q.isRelevant

\* the fallback without isIncrementalMatch, line 662-672
FallbackRelevant(q) ==
    IF q.isRelevant THEN TRUE
    ELSE IF ~q.hasDependencies /\ q.isFullTemplate # "true" THEN TRUE
    ELSE FALSE

\* a variant in which the fallback is applied after the callbacks too
isFileRelevantToThisTemplateThenFallback(q) ==
    \/ q.incrementalFile = ""
    \/ \E i \in 1..Len(q.entries) :
            HasIncrementalMatch(q.entries[i]) /\ IsIncrementalMatch(q.entries[i], q)
    \/ FallbackRelevant(q)

\* isFileRelevantToThisTemplate(incrementalFile, metadata)
isFileRelevantToThisTemplate(q) ==
    LET extensionEntries == SelectSeq(q.entries, HasIncrementalMatch)
    IN  IF q.incrementalFile = "" THEN TRUE
        ELSE IF Len(extensionEntries) > 0
        THEN \E i \in 1..Len(extensionEntries) : IsIncrementalMatch(extensionEntries[i], q)
        ELSE FallbackRelevant(q)

QueryInit == query \in QueryInputs

Answer ==
    /\ query.phase = "asked"
    /\ query' = [query EXCEPT !.phase = "answered",
                              !.result = isFileRelevantToThisTemplate(query)]
    /\ UNCHANGED <<mapVars, writerVars, compileVars, contentVars, incrVars>>

QueryNext == Answer

\* ------------------------------------------------------------------------
\* TemplateWriter: one build pass of generateTemplates (full build)
\* ------------------------------------------------------------------------
\* the data of the documents of the site, as resolved by add()
SiteData ==
    [p \in Paths |->
        CASE p = "./post.md" -> [tags |-> {"post"}, reads |-> {}]
          [] p = "./another-post.md" -> [tags |-> {"post"}, reads |-> {}]
          [] p = "./index.md" -> [tags |-> {}, reads |-> {"post", AllName}]
          [] p = "./about.md" -> [tags |-> {"news"}, reads |-> {}]
          [] OTHER -> [tags |-> {}, reads |-> {"news"}]]

NoRenders == [p \in Paths |-> "none"]

\* the output paths of the pages of a map entry; ./index.md is paginated
OutputPaths(p) ==
    IF p = "./index.md"
    THEN {"_site/index.html", "_site/1/index.html"}
    ELSE {"_site/" \o StripLeadingDotSlash(p)}

NoBuildError == [name |-> "", inputPath |-> "", outputPaths |-> {}, cause |-> ""]

\* new EleventyTemplateError(`Having trouble writing to ${outputPaths} from
\* "${mapEntry.inputPath}"`, e)
TemplateError(p, e) ==
    [name |-> "EleventyTemplateError", inputPath |-> p,
     outputPaths |-> OutputPaths(p), cause |-> e]

\* the front matter error add() rejects with when the data of p cannot be read
AddError(p) ==
    [name |-> "TemplateContentFrontMatterError", inputPath |-> p,
     outputPaths |-> {}, cause |-> ParserError]

\* a variant in which unsetting the override leaves the earlier value
SetRenderableOverrideKeepsOnUnset(old, value) == IF value = "render" THEN old ELSE value

\* tmpl.setRenderableOverride(value): undefined is "render", "optional",
\* false is "skip"; the earlier value is replaced
SetRenderableOverride(old, value) == value

WriterInit ==
    /\ wpc = "idle"
    /\ passes = 0
    /\ isRunInitialBuild \in BOOLEAN
    /\ templatePathCache = {}
    /\ override = [p \in Paths |-> "render"]
    /\ pendingAdds = {}
    /\ renderState = NoRenders
    /\ tooEarly = {}
    /\ secondState = NoRenders
    /\ buildState = "none"
    /\ buildError = NoBuildError

WriterIdle ==
    /\ wpc = "idle"
    /\ passes = 0
    /\ isRunInitialBuild = TRUE
    /\ templatePathCache = {}
    /\ override = [p \in Paths |-> "render"]
    /\ pendingAdds = {}
    /\ renderState = NoRenders
    /\ tooEarly = {}
    /\ secondState = NoRenders
    /\ buildState = "none"
    /\ buildError = NoBuildError

\* writeTemplates -> generateTemplates -> _createTemplateMap ->
\* _addToTemplateMapFullBuild: a new TemplateMap, then for every path the
\* instance is created or reused, its renderable override is set and add()
\* is started
WGenerateTemplates ==
    /\ wpc = "idle"
    /\ passes < MaxPasses
    /\ passes' = passes + 1
    /\ map' = <<>>
    /\ tmState' = "open"
    /\ order' = <<>>
    /\ collections' = EmptyCollections
    /\ templatePathCache' = templatePathCache \cup Paths
    /\ override' = [p \in Paths |->
            SetRenderableOverride(override[p],
                IF isRunInitialBuild THEN "render" ELSE "skip")]
    /\ pendingAdds' = Paths
    /\ renderState' = NoRenders
    /\ tooEarly' = {}
    /\ secondState' = NoRenders
    /\ buildState' = "pending"
    /\ buildError' = NoBuildError
    /\ wpc' = "adding"
    /\ UNCHANGED <<isRunInitialBuild, compileVars, contentVars, queryVars, incrVars>>

\* one of the add() promises resolves: the entry is pushed onto the map
WAddResolves(p) ==
    /\ wpc = "adding"
    /\ p \in pendingAdds
    /\ TmAdd(p, SiteData[p].tags, SiteData[p].reads)
    /\ pendingAdds' = pendingAdds \ {p}
    /\ UNCHANGED <<compileVars, contentVars, queryVars, incrVars, wpc, passes, isRunInitialBuild,
                   templatePathCache, override, renderState, tooEarly, buildVars>>

\* one of the add() promises rejects, the front matter of p cannot be parsed:
\* Promise.all(promises) rejects, the awaits of _addToTemplateMap,
\* _createTemplateMap, generateTemplates and writeTemplates pass the error on
\* and no render is started; the other add() calls are left to themselves
WAddRejects(p) ==
    /\ wpc = "adding"
    /\ p \in pendingAdds
    /\ pendingAdds' = pendingAdds \ {p}
    /\ buildState' = "rejected"
    /\ buildError' = AddError(p)
    /\ wpc' = "idle"
    /\ UNCHANGED <<compileVars, contentVars, queryVars, incrVars, mapVars, passes, isRunInitialBuild,
                   templatePathCache, override, renderState, tooEarly, secondState>>

\* the nodes of the graph are input paths without the leading ./
NormalizeNode(p) == StripLeadingDotSlash(p)

\* the edges the map entries give: a reader of a collection depends on the
\* entries that write to it
UsesOfMap(m) ==
    {<<NormalizeNode(m[j].path), NormalizeNode(m[i].path)>> :
        <<i, j>> \in {ij \in (1..Len(m)) \X (1..Len(m)) : MustPrecede(m[ij[1]], m[ij[2]])}}

\* templateMap.addAllToGlobalDependencyGraph()
AddAllToGlobalDependencyGraph(g, m) == g \cup UsesOfMap(m)

\* _addToTemplateMap, line 386-391: Promise.all(promises) has resolved, the
\* relationships of the map are written to the graph and the call returns
WAddAllToGlobalDependencyGraph ==
    /\ wpc = "adding"
    /\ pendingAdds = {}
    /\ uses' = AddAllToGlobalDependencyGraph(uses, map)
    /\ wpc' = "added"
    /\ UNCHANGED <<mapVars, compileVars, contentVars, queryVars, passes,
                   isRunInitialBuild, templatePathCache, override, pendingAdds,
                   renderState, tooEarly, buildVars, ipc, todo, templates,
                   incrementalFile, incrementalFileShape, engineEntries,
                   secondOrderRelevantLookup, skippedCount, resetBeforeAdd,
                   resetAfterAdd, instances, wasCached>>

\* _createTemplateMap, line 398: _addToTemplateMap has returned; cache() is
\* called
WCacheBegin ==
    /\ wpc = "added"
    /\ TmCacheBegin
    /\ wpc' = "caching"
    /\ UNCHANGED <<compileVars, contentVars, queryVars, incrVars, passes, isRunInitialBuild,
                   templatePathCache, override, pendingAdds, renderState, tooEarly,
                   buildVars>>

WCacheEnd ==
    /\ wpc = "caching"
    /\ TmCacheEnd
    /\ UNCHANGED <<writerVars, compileVars, contentVars, queryVars, incrVars>>

\* mutant: cache() is called but not awaited
CacheCalled == tmState # "open"

\* `await this.templateMap.cache()` has returned
CacheAwaited == tmState = "cached"

OnMap(p) == \E i \in 1..Len(map) : map[i].path = p

\* generateTemplates, after _createTemplateMap: _generateTemplate is started
\* for every map entry, and in the same synchronous turn for every entry
\* that usedTemplateContentTooEarlyMap holds at that moment
WStartRenders ==
    /\ wpc = "caching"
    /\ CacheAwaited
    /\ renderState' = [p \in Paths |-> IF OnMap(p) THEN "started" ELSE "none"]
    /\ secondState' = [p \in Paths |-> IF p \in tooEarly THEN "started" ELSE "none"]
    /\ wpc' = "rendering"
    /\ UNCHANGED <<compileVars, contentVars, queryVars, incrVars, mapVars, passes, isRunInitialBuild,
                   templatePathCache, override, pendingAdds, tooEarly, buildState,
                   buildError>>

\* mutant: a failed sibling stops the renders still running
CanSettleUnlessSiblingFailed(state, p) ==
    /\ state[p] = "started"
    /\ \A q \in Paths : renderState[q] # "failed" /\ secondState[q] # "failed"

\* the promise of a render is pending: nothing but its own outcome settles it
CanSettle(state, p) == state[p] = "started"

\* Promise.all(promises): the first rejection settles it, later ones are ignored
FirstRejection(state, error, e) == IF state = "pending" THEN e ELSE error

\* the render promise of one entry settles, in the main pass (pass 1) or in
\* the second pass. Main pass: a premature-content error is caught and the
\* entry pushed onto usedTemplateContentTooEarlyMap, the promise resolves;
\* any other error rejects it with a template error. Second pass: every
\* error rejects it with a template error
WRenderSettles(p, pass, outcome) ==
    /\ wpc = "rendering"
    /\ IF pass = 1
       THEN /\ CanSettle(renderState, p)
            /\ renderState' = [renderState EXCEPT ![p] = outcome]
            /\ tooEarly' = IF outcome = "premature" THEN tooEarly \cup {p} ELSE tooEarly
            /\ UNCHANGED secondState
       ELSE /\ CanSettle(secondState, p)
            /\ secondState' = [secondState EXCEPT ![p] =
                    IF outcome = "ok" THEN "ok" ELSE "failed"]
            /\ UNCHANGED <<renderState, tooEarly>>
    /\ IF outcome = "failed" \/ (pass = 2 /\ outcome = "premature")
       THEN /\ buildError' = FirstRejection(buildState, buildError,
                                TemplateError(p, IF outcome = "failed" THEN "RenderError"
                                                 ELSE "PrematureTemplateContent"))
            /\ buildState' = "rejected"
       ELSE UNCHANGED <<buildState, buildError>>
    /\ UNCHANGED <<compileVars, contentVars, queryVars, incrVars, mapVars, wpc, passes,
                   isRunInitialBuild, templatePathCache, override, pendingAdds>>

\* every promise returned by generateTemplates has settled: Promise.all
\* resolves unless one of them has rejected
WPassDone ==
    /\ wpc = "rendering"
    /\ \A p \in Paths : renderState[p] # "started" /\ secondState[p] # "started"
    /\ wpc' = "idle"
    /\ buildState' = IF buildState = "pending" THEN "resolved" ELSE buildState
    /\ UNCHANGED <<compileVars, contentVars, queryVars, incrVars, mapVars, passes, isRunInitialBuild,
                   templatePathCache, override, pendingAdds, renderState, tooEarly,
                   secondState, buildError>>

WriterNext ==
    \/ WGenerateTemplates
    \/ \E p \in Paths : WAddResolves(p)
    \/ \E p \in Paths : WAddRejects(p)
    \/ WAddAllToGlobalDependencyGraph
    \/ WCacheBegin
    \/ WCacheEnd
    \/ WStartRenders
    \/ \E p \in Paths, pass \in {1, 2}, outcome \in {"ok", "premature", "failed"} :
            WRenderSettles(p, pass, outcome)
    \/ WPassDone

NoResets == [p \in Paths |-> {}]

\* no build has been run
IncrIdle ==
    /\ ipc = "idle"
    /\ todo = <<>>
    /\ templates = {}
    /\ incrementalFile = ""
    /\ incrementalFileShape = "template"
    /\ uses = {}
    /\ engineEntries = <<>>
    /\ secondOrderRelevantLookup = {}
    /\ skippedCount = 0
    /\ resetBeforeAdd = NoResets
    /\ resetAfterAdd = NoResets
    /\ instances = [p \in Paths |-> 0]
    /\ wasCached = [p \in Paths |-> <<>>]

InitWriter == MapInit /\ WriterInit /\ CompileIdle /\ ContentIdle /\ QueryIdle /\ IncrIdle

SpecWriter == InitWriter /\ [][WriterNext]_vars

\* ------------------------------------------------------------------------
\* TemplateWriter._addToTemplateMap: the full and the incremental build
\* ------------------------------------------------------------------------
LayoutFile == InputPath(6)
CopyFile == InputPath(7)

\* the files that may have changed: none (full build), a template, a layout,
\* a passthrough copy file
ChangedFiles == {""} \cup Paths \cup {LayoutFile, CopyFile}

\* getFileShape(paths, incrementalFile), the shapes it can return for the
\* file, undefined written "none": without EleventyFiles everything is taken
\* for a template; with it no file gives undefined, a file the passthrough
\* manager claims gives "copy" (also when it is one of the paths), one of
\* the paths gives "template" and any other file undefined
FileShapes(file) ==
    IF file = "" THEN {"template", "none"}
    ELSE IF file \in Paths THEN {"template", "copy"}
    ELSE {"template", "copy", "none"}

\* the extension entries of the engine of the documents
EngineEntryLists == {<<>>, <<"ifRelevant">>, <<"never">>, <<"plain", "always">>}

\* config.uses.resetNode(file): the dependencies of the file are forgotten,
\* what depends on the file stays
ResetNode(g, file) == {e \in g : e[1] # NormalizeNode(file)}

\* config.uses.isFileUsedBy(parent, child): parent depends on child
IsFileUsedBy(g, parent, child) == <<NormalizeNode(parent), NormalizeNode(child)>> \in g

\* engine.isFileRelevantTo(inputPath, file)
EngineIsFileRelevantTo(g, inputPath, file) ==
    inputPath = file \/ IsFileUsedBy(g, inputPath, file)

\* engine.hasDependencies(file)
EngineHasDependencies(g, file) == \E e \in g : e[1] = NormalizeNode(file)

\* the transitive dependencies of a set of nodes
RECURSIVE DependenciesOf(_, _, _)
DependenciesOf(g, frontier, seen) ==
    LET nxt == {e[2] : e \in {d \in g : d[1] \in frontier}} \ seen
    IN  IF nxt = {} THEN seen ELSE DependenciesOf(g, nxt, seen \cup nxt)

\* config.uses.getTemplatesRelevantToTemplateList(list)
GetTemplatesRelevantToTemplateList(g, list) ==
    DependenciesOf(g, {NormalizeNode(p) : p \in list}, {})

\* mutant: the changed file is treated like every other template
IsIncrementalFileNever(shape, p, file) == FALSE

\* incrementalFileShape === "template" && tmpl.inputPath === this.incrementalFile
IsIncrementalFile(shape, p, file) == shape = "template" /\ p = file

\* tmpl.isFileRelevantToThisTemplate(this.incrementalFile,
\*     { isFullTemplate: incrementalFileShape === "template" })
IsRelevant(g, p, file, shape) ==
    isFileRelevantToThisTemplate(
        [incrementalFile |-> file,
         hasDependencies |-> EngineHasDependencies(g, file),
         isRelevant |-> EngineIsFileRelevantTo(g, p, file),
         isFullTemplate |-> IF shape = "template" THEN "true" ELSE "false",
         entries |-> engineEntries, phase |-> "asked", result |-> FALSE])

NoArgument == [given |-> FALSE, keys |-> {}, on |-> {}]
DataRender == [given |-> TRUE, keys |-> {"data", "render"}, on |-> {"data", "render"}]
DataOnly == [given |-> TRUE, keys |-> {"data"}, on |-> {"data"}]

\* the kinds resetCaches(arg) resets
KindsOf(arg) == {k \in Kinds : getResetTypes(arg)[k]}

\* line 230-240: resetCaches() before the data is generated
ResetsBeforeData(g, p, file, shape) ==
    IF IsIncrementalFile(shape, p, file) THEN KindsOf(NoArgument)
    ELSE IF IsRelevant(g, p, file, shape) THEN KindsOf(NoArgument)
    ELSE {}

\* mutant: a template used by the changed file is skipped
UsedByChangedSkipped(g, p, file) == "skip"

\* line 276-282
UsedByChanged(g, p, file) == IF IsFileUsedBy(g, file, p) THEN "optional" ELSE "skip"

\* mutant: a relevant template is rendered only if the file is its dependency
RelevantStateOptional(g, p, file, shape) ==
    IF IsRelevant(g, p, file, shape) /\ IsFileUsedBy(g, p, file) THEN "render"
    ELSE IF IsRelevant(g, p, file, shape) THEN "optional"
    ELSE UsedByChanged(g, p, file)

\* line 267-282
RelevantState(g, p, file, shape) ==
    IF IsRelevant(g, p, file, shape) THEN "render" ELSE UsedByChanged(g, p, file)

\* line 264-283: the first classification of a template
Classify(g, p, file, shape) ==
    IF IsIncrementalFile(shape, p, file) THEN "render"
    ELSE RelevantState(g, p, file, shape)

\* line 267-275: secondOrderRelevantLookup
FirstOrderRelevant(g, ts, file, shape) ==
    {p \in ts : ~IsIncrementalFile(shape, p, file) /\ IsRelevant(g, p, file, shape)}

\* mutant: the graph nodes are compared with the input paths as they are
SecondOrderTemplatesStripped(g, lookup) == GetTemplatesRelevantToTemplateList(g, lookup)

\* line 285-290: secondOrderTemplates
SecondOrderTemplates(g, lookup) ==
    {AddLeadingDotSlash(n) : n \in GetTemplatesRelevantToTemplateList(g, lookup)}

\* a variant in which every second-order template becomes optional
UpgradeAll(state, p, second) == IF p \in second THEN "optional" ELSE state

\* mutant: the second-order templates are left as classified
UpgradeNone(state, p, second) == state

\* line 292-299
Upgrade(state, p, second) ==
    IF p \in second /\ state = "skip" THEN "optional" ELSE state

\* mutant: the first classification is final
FinalStateFirstPass(g, ts, p, file, shape) == Classify(g, p, file, shape)

\* the renderable state of a template at the end of the classification
FinalState(g, ts, p, file, shape) ==
    Upgrade(Classify(g, p, file, shape), p,
            SecondOrderTemplates(g, FirstOrderRelevant(g, ts, file, shape)))

\* mutant: only the templates with render disabled are counted
CountedAsSkippedDisabled(state) == state = "skip"

\* line 314-324: the else branch holds the disabled and the optional templates
CountedAsSkipped(state) == state \in {"skip", "optional"}

\* mutant: ignore-initial leaves the incremental file renderable
IgnoreInitialStateKeepsChanged(p, file) == IF p = file THEN "render" ELSE "skip"

\* line 256-262 and 337-338: tmpl.setRenderableOverride(false)
IgnoreInitialState(p, file) == "skip"

\* mutant: every template that is not the changed file is reset like a
\* rendered one
ResetsAfterDataRendered(p, state, file, shape) ==
    IF IsIncrementalFile(shape, p, file) THEN {} ELSE KindsOf(DataRender)

\* line 302-325: the caches reset according to the final state
ResetsAfterData(p, state, file, shape) ==
    IF IsIncrementalFile(shape, p, file) THEN {}
    ELSE IF state = "render" THEN KindsOf(DataRender)
    ELSE KindsOf(DataOnly)

\* graphs with the edges of an earlier state of the site: another-post.md
\* uses the layout and read a collection post.md fed
LayoutGraph ==
    {<<NormalizeNode(InputPath(2)), NormalizeNode(LayoutFile)>>,
     <<NormalizeNode(InputPath(2)), NormalizeNode(InputPath(1))>>}

\* ... post.md uses the layout and read a collection index.md fed
StaleGraph ==
    {<<NormalizeNode(InputPath(1)), NormalizeNode(LayoutFile)>>,
     <<NormalizeNode(InputPath(1)), NormalizeNode(InputPath(3))>>}

InitialGraphs == {{}, LayoutGraph, StaleGraph}

\* the graph is what earlier builds left: nothing, the edges of the documents,
\* and the layout edges; the engine has one of the extension entry lists
IncrInit ==
    /\ ipc = "idle"
    /\ todo = <<>>
    /\ templates = {}
    /\ incrementalFile = ""
    /\ incrementalFileShape = "template"
    /\ uses \in InitialGraphs
    /\ engineEntries \in EngineEntryLists
    /\ secondOrderRelevantLookup = {}
    /\ skippedCount = 0
    /\ resetBeforeAdd = NoResets
    /\ resetAfterAdd = NoResets
    /\ instances = [p \in Paths |-> 0]
    /\ wasCached = [p \in Paths |-> <<>>]

\* a variant in which the lookup never finds the instance
TemplatePathCacheGetMiss(cache, p) == FALSE

\* _createTemplate, line 179-182: this._templatePathCache.get(path) is truthy
TemplatePathCacheGet(cache, p) == p \in cache

\* _createTemplate, line 192: new Template(path, ...) on a miss
Constructed(n, cache, p) ==
    [q \in Paths |-> IF q = p /\ ~TemplatePathCacheGet(cache, p) THEN n[q] + 1 ELSE n[q]]

\* _createTemplate, line 204-207: the wasCached flag of the returned record
Returned(flags, cache, p) ==
    [flags EXCEPT ![p] = Append(@, TemplatePathCacheGet(cache, p))]

\* _createTemplate for every path of a list, in order; the cache is read
\* before the pass sets any of its paths
ConstructedAll(n, cache) ==
    [q \in Paths |-> IF TemplatePathCacheGet(cache, q) THEN n[q] ELSE n[q] + 1]

ReturnedAll(flags, cache) ==
    [q \in Paths |-> Append(flags[q], TemplatePathCacheGet(cache, q))]

PathSeq == [i \in 1..NumDocs |-> InputPath(i)]

\* no pass is in flight: the caller prepares a build between two passes
BetweenPasses == ipc = "idle" /\ passes < MaxPasses

incrRest == <<todo, templates, incrementalFileShape, uses, engineEntries,
              secondOrderRelevantLookup, resetBeforeAdd, resetAfterAdd,
              instances, wasCached>>

\* restart(), line 99-103
IRestart ==
    /\ BetweenPasses
    /\ skippedCount' = 0
    /\ UNCHANGED <<mapVars, writerVars, compileVars, contentVars, queryVars,
                   ipc, incrementalFile, incrRest>>

\* setRunInitialBuild(runInitialBuild), line 541-543
ISetRunInitialBuild(run) ==
    /\ BetweenPasses
    /\ isRunInitialBuild' = run
    /\ UNCHANGED <<mapVars, wpc, passes, templatePathCache, override, pendingAdds,
                   renderState, tooEarly, buildVars, compileVars, contentVars,
                   queryVars, incrVars>>

\* setIncrementalFile(incrementalFile), line 547-550
ISetIncrementalFile(file) ==
    /\ BetweenPasses
    /\ incrementalFile' = file
    /\ UNCHANGED <<mapVars, writerVars, compileVars, contentVars, queryVars,
                   ipc, skippedCount, incrRest>>

\* resetIncrementalFile(), line 551-554: null is written ""
IResetIncrementalFile ==
    /\ BetweenPasses
    /\ incrementalFile' = ""
    /\ UNCHANGED <<mapVars, writerVars, compileVars, contentVars, queryVars,
                   ipc, skippedCount, incrRest>>

\* _createTemplateMap -> _addToTemplateMap, up to the first await: a new
\* TemplateMap; getFileShape gives the shape; the paths are filtered out and
\* counted as skipped when the changed file is a passthrough copy. The full
\* build creates all templates, sets their overrides and starts add() for
\* each in one loop. The incremental build creates the template of the first
\* path and waits for its asyncTemplateInitialization()
IAddToTemplateMap(shape) ==
    /\ BetweenPasses
    /\ shape \in FileShapes(incrementalFile)
    /\ passes' = passes + 1
    /\ incrementalFileShape' = shape
    /\ map' = <<>>
    /\ tmState' = "open"
    /\ order' = <<>>
    /\ collections' = EmptyCollections
    /\ secondOrderRelevantLookup' = {}
    /\ resetAfterAdd' = NoResets
    /\ ipc' = "adding"
    /\ IF shape = "copy"
       THEN /\ skippedCount' = skippedCount + NumDocs
            /\ todo' = <<>>
            /\ templates' = {}
            /\ resetBeforeAdd' = NoResets
            /\ UNCHANGED <<templatePathCache, override, pendingAdds, instances,
                           wasCached>>
       ELSE IF incrementalFile = ""
       THEN /\ todo' = <<>>
            /\ templates' = Paths
            /\ templatePathCache' = templatePathCache \cup Paths
            /\ override' = [p \in Paths |->
                    SetRenderableOverride(override[p],
                        IF isRunInitialBuild THEN "render"
                        ELSE IgnoreInitialState(p, incrementalFile))]
            /\ resetBeforeAdd' = [p \in Paths |->
                    IF TemplatePathCacheGet(templatePathCache, p)
                    THEN KindsOf(NoArgument) ELSE {}]
            /\ instances' = ConstructedAll(instances, templatePathCache)
            /\ wasCached' = ReturnedAll(wasCached, templatePathCache)
            /\ pendingAdds' = Paths
            /\ UNCHANGED skippedCount
       ELSE LET p == Head(PathSeq)
            IN  /\ todo' = Tail(PathSeq)
                /\ templates' = {p}
                /\ templatePathCache' = templatePathCache \cup {p}
                /\ instances' = Constructed(instances, templatePathCache, p)
                /\ wasCached' = Returned(wasCached, templatePathCache, p)
                /\ resetBeforeAdd' = NoResets
                /\ pendingAdds' = {}
                /\ UNCHANGED <<override, skippedCount>>
    /\ UNCHANGED <<wpc, isRunInitialBuild, renderState, tooEarly, buildVars, uses,
                   incrementalFile, engineEntries, compileVars, contentVars,
                   queryVars>>

\* the template of the loop turn at hand: created, asyncTemplateInitialization
\* pending, add() not started
Initializing == {p \in templates : p \notin pendingAdds /\ ~OnMap(p)}

\* the first loop of the incremental build, line 218-244, from the moment
\* asyncTemplateInitialization() of a template resolves to the next await:
\* the caches of the template are reset if it is the changed file or
\* relevant to it, add() is started, and the template of the next path is
\* created or reused and its initialization awaited; after the last path
\* Promise.all(promises) is awaited
ICreateTemplate ==
    /\ ipc = "adding"
    /\ incrementalFile # ""
    /\ \E p \in Initializing :
        /\ resetBeforeAdd' = [resetBeforeAdd EXCEPT ![p] =
                ResetsBeforeData(uses, p, incrementalFile, incrementalFileShape)]
        /\ pendingAdds' = pendingAdds \cup {p}
    /\ IF todo # <<>>
       THEN LET q == Head(todo)
            IN  /\ templatePathCache' = templatePathCache \cup {q}
                /\ templates' = templates \cup {q}
                /\ instances' = Constructed(instances, templatePathCache, q)
                /\ wasCached' = Returned(wasCached, templatePathCache, q)
                /\ todo' = Tail(todo)
       ELSE UNCHANGED <<templatePathCache, templates, instances, wasCached, todo>>
    /\ UNCHANGED <<mapVars, wpc, passes, isRunInitialBuild, override, renderState,
                   tooEarly, buildVars, ipc, incrementalFile, incrementalFileShape,
                   uses, engineEntries, secondOrderRelevantLookup, skippedCount,
                   resetAfterAdd, compileVars, contentVars, queryVars>>

\* one of the add() promises resolves
IAddResolves(p) ==
    /\ ipc = "adding"
    /\ p \in pendingAdds
    /\ TmAdd(p, SiteData[p].tags, SiteData[p].reads)
    /\ pendingAdds' = pendingAdds \ {p}
    /\ UNCHANGED <<wpc, passes, isRunInitialBuild, templatePathCache, override,
                   renderState, tooEarly, buildVars, incrVars, compileVars,
                   contentVars, queryVars>>

\* Promise.all(promises) has resolved. Full build: the relationships are
\* written to the graph. Incremental build, line 249-325: the node of the
\* changed file is reset, the relationships are written, and the templates
\* are classified, upgraded and have their caches reset in one synchronous run
IFinish ==
    /\ ipc = "adding"
    /\ todo = <<>>
    /\ Initializing = {}
    /\ pendingAdds = {}
    /\ ipc' = "done"
    /\ IF incrementalFile = ""
       THEN /\ uses' = AddAllToGlobalDependencyGraph(uses, map)
            /\ UNCHANGED <<override, secondOrderRelevantLookup, skippedCount, resetAfterAdd>>
       ELSE LET g == AddAllToGlobalDependencyGraph(ResetNode(uses, incrementalFile), map)
                final == [p \in Paths |->
                            FinalState(g, templates, p, incrementalFile, incrementalFileShape)]
                skipped == {p \in templates :
                                /\ ~IsIncrementalFile(incrementalFileShape, p, incrementalFile)
                                /\ CountedAsSkipped(final[p])}
            IN  /\ uses' = g
                /\ IF ~isRunInitialBuild
                   THEN /\ override' = [p \in Paths |->
                                IF p \in templates
                                THEN SetRenderableOverride(override[p],
                                        IgnoreInitialState(p, incrementalFile))
                                ELSE override[p]]
                        /\ UNCHANGED <<secondOrderRelevantLookup, skippedCount, resetAfterAdd>>
                   ELSE /\ override' = [p \in Paths |->
                                IF p \in templates
                                THEN SetRenderableOverride(override[p], final[p])
                                ELSE override[p]]
                        /\ secondOrderRelevantLookup' =
                                FirstOrderRelevant(g, templates, incrementalFile,
                                                   incrementalFileShape)
                        /\ resetAfterAdd' = [p \in Paths |->
                                IF p \in templates
                                THEN ResetsAfterData(p, final[p], incrementalFile,
                                                     incrementalFileShape)
                                ELSE {}]
                        /\ skippedCount' = skippedCount + Cardinality(skipped)
    /\ UNCHANGED <<mapVars, wpc, passes, isRunInitialBuild, templatePathCache,
                   pendingAdds, renderState, tooEarly, buildVars, todo, templates,
                   incrementalFile, incrementalFileShape, engineEntries,
                   resetBeforeAdd, instances, wasCached, compileVars, contentVars,
                   queryVars>>

\* a variant in which cache() does not wait for _addToTemplateMap
CacheMayBeginEarly == ipc \in {"adding", "done"}

\* _createTemplateMap, line 397-398: cache() is called once the awaited
\* _addToTemplateMap has returned
CacheMayBegin == ipc = "done"

\* _createTemplateMap, line 398: templateMap.cache() computes the order
ICacheBegin ==
    /\ CacheMayBegin
    /\ TmCacheBegin
    /\ UNCHANGED <<writerVars, compileVars, contentVars, queryVars, incrVars>>

\* templateMap.cache() resolves and _createTemplateMap returns the map: the
\* pass is over
ICacheEnd ==
    /\ ipc = "done"
    /\ TmCacheEnd
    /\ ipc' = "idle"
    /\ UNCHANGED <<writerVars, compileVars, contentVars, queryVars,
                   incrementalFile, skippedCount, incrRest>>

IncrNext ==
    \/ IRestart
    \/ \E run \in BOOLEAN : ISetRunInitialBuild(run)
    \/ \E file \in ChangedFiles \ {""} : ISetIncrementalFile(file)
    \/ IResetIncrementalFile
    \/ \E shape \in {"template", "copy", "none"} : IAddToTemplateMap(shape)
    \/ ICreateTemplate
    \/ \E p \in Paths : IAddResolves(p)
    \/ IFinish
    \/ ICacheBegin
    \/ ICacheEnd

InitIncr == MapInit /\ WriterIdle /\ CompileIdle /\ ContentIdle /\ QueryIdle /\ IncrInit

SpecIncr == InitIncr /\ [][IncrNext]_vars

\* ------------------------------------------------------------------------
\* SpecMap: a client adds documents in any order and calls cache()
\* ------------------------------------------------------------------------
MapAdd ==
    /\ \E p \in Paths, tags \in TagChoices, reads \in ReadChoices : TmAdd(p, tags, reads)
    /\ UNCHANGED <<writerVars, compileVars, contentVars, queryVars, incrVars>>

MapCacheBegin == TmCacheBegin /\ UNCHANGED <<writerVars, compileVars, contentVars, queryVars, incrVars>>

MapCacheEnd == TmCacheEnd /\ UNCHANGED <<writerVars, compileVars, contentVars, queryVars, incrVars>>

MapNext == MapAdd \/ MapCacheBegin \/ MapCacheEnd

InitMap == MapInit /\ WriterIdle /\ CompileIdle /\ ContentIdle /\ QueryIdle /\ IncrIdle

SpecMap == InitMap /\ [][MapNext]_vars

\* SpecCompile: compile() calls, content reads and events in any interleaving
InitCompile == MapInit /\ WriterIdle /\ CompileInit /\ ContentIdle /\ QueryIdle /\ IncrIdle

SpecCompile == InitCompile /\ [][CompileNext]_vars

\* the engine settles every compile it was given, and the promise jobs of a
\* settled promise are run: a step that stays possible is taken
CompileFairness ==
    \A c \in CallIds :
        /\ WF_vars(CompileStart(c) /\ OtherVarsIdle)
        /\ WF_vars((CompileResolves(c) \/ CompileFails(c)) /\ OtherVarsIdle)
        /\ WF_vars(CompileHitResolves(c) /\ OtherVarsIdle)

SpecCompileFair == SpecCompile /\ CompileFairness

\* SpecContent: read(), getFrontMatterData() and resetCaches() calls on the
\* instances, the steps of their promises and resource-modified events
InitContent == MapInit /\ WriterIdle /\ ContentInit /\ QueryIdle /\ IncrIdle

SpecContent == InitContent /\ [][ContentNext]_vars

\* SpecQuery: one isFileRelevantToThisTemplate call on any inputs
InitQuery == MapInit /\ WriterIdle /\ CompileIdle /\ ContentIdle /\ QueryInit /\ IncrIdle

SpecQuery == InitQuery /\ [][QueryNext]_vars

\* ------------------------------------------------------------------------
\* Properties of the computed order
\* ------------------------------------------------------------------------
Cached == tmState = "cached"
InOrder(x) == \E k \in 1..Len(order) : order[k] = x
PosOf(x) == CHOOSE k \in 1..Len(order) : order[k] = x
Before(x, y) == InOrder(x) /\ InOrder(y) /\ PosOf(x) < PosOf(y)
MapIdx == 1..Len(map)
NoDependency(i, j) == ~Reaches(map, i, j) /\ ~Reaches(map, j, i)
FixturePost(p) == [path |-> p, tags |-> {"post"}, reads |-> {}]
FixtureIndex(p) == [path |-> p, tags |-> {}, reads |-> {"post"}]

\* document i writes to a collection that document j reads, the implicit
\* all-collection included
WritesForReader(i, j) == map[j].reads \cap Writes(map[i]) # {}

\* C1 (as stated): every document A that writes to a collection C, named or
\* all, precedes every other document B that reads C in getTemplateOrder()
\* after cache().
C1_WritersBeforeReaders ==
    Cached => \A i \in MapIdx, j \in MapIdx :
        (i # j /\ WritesForReader(i, j)) => Before(map[i].path, map[j].path)

\* C1 (amended): every document A that writes to a collection C, named or
\* all, precedes every other document B that reads C in getTemplateOrder()
\* after cache(), unless A in turn depends, directly or transitively, on B.
C1_WritersBeforeReadersAcyclic ==
    Cached => \A i \in MapIdx, j \in MapIdx :
        (i # j /\ WritesForReader(i, j) /\ ~Reaches(map, j, i))
            => Before(map[i].path, map[j].path)

\* C1 witness: a reader of a named collection and a reader of the
\* all-collection were each added before a document that writes to the
\* collection (for all: a document without tags) and still come later
C1_Witness ==
    /\ Cached
    /\ \E i \in MapIdx, j \in MapIdx :
        /\ j < i
        /\ map[j].reads \cap map[i].tags # {}
        /\ ~Reaches(map, j, i)
        /\ Before(map[i].path, map[j].path)
    /\ \E i \in MapIdx, j \in MapIdx :
        /\ j < i
        /\ AllName \in map[j].reads
        /\ map[i].tags = {}
        /\ ~Reaches(map, j, i)
        /\ Before(map[i].path, map[j].path)

\* C2 (as stated): two documents with no collection dependency between them,
\* direct or transitive, appear in getTemplateOrder() in their add order.
C2_IndependentKeepAddOrder ==
    Cached => \A i \in MapIdx, j \in MapIdx :
        (i < j /\ NoDependency(i, j)) => Before(map[i].path, map[j].path)

\* C2 (amended): two documents with no collection dependency between them
\* that write to the same collections and read the same collections appear
\* in getTemplateOrder() in their add order.
C2_InterchangeableKeepAddOrder ==
    Cached => \A i \in MapIdx, j \in MapIdx :
        (/\ i < j
         /\ NoDependency(i, j)
         /\ map[i].tags = map[j].tags
         /\ map[i].reads = map[j].reads) => Before(map[i].path, map[j].path)

\* C2 witness: the two posts of the fixture, added behind the index that
\* reads them and in the reverse order, come out in their add order
C2_Witness ==
    /\ Cached
    /\ map = <<FixtureIndex("./index.md"), FixturePost("./another-post.md"),
               FixturePost("./post.md")>>
    /\ Before("./another-post.md", "./post.md")

\* A reads a collection B writes and B reads a collection A writes
MutuallyDependent(i, j) == WritesForReader(i, j) /\ WritesForReader(j, i)

\* C4: when two documents are mutually dependent, through named collections
\* or through the all-collection, cache() completes with an order that holds
\* every document once, and the documents of a cyclic subset appear in it in
\* their add order.
C4_CycleFallsBackToAddOrder ==
    Cached =>
        /\ \A i \in MapIdx : Cardinality({k \in 1..Len(order) : order[k] = map[i].path}) = 1
        /\ \A i \in MapIdx, j \in MapIdx :
            (i < j /\ (MutuallyDependent(i, j) \/ SameCycle(map, i, j)))
                => Before(map[i].path, map[j].path)

\* C4 witness: a document without tags reads the named collection of a
\* document added after it, which reads the all-collection; cache() is done
\* and the two come out in their add order
C4_Witness ==
    /\ Cached
    /\ \E i \in MapIdx, j \in MapIdx :
        /\ i < j
        /\ map[i].tags = {}
        /\ map[i].reads \cap map[j].tags # {}
        /\ AllName \in map[j].reads
        /\ MutuallyDependent(i, j)
        /\ Before(map[i].path, map[j].path)

MarkerPlaced(c) ==
    /\ \A i \in MapIdx : c \in map[i].tags => Before(map[i].path, Marker(c))
    /\ \A j \in MapIdx : c \in map[j].reads => Before(Marker(c), map[j].path)

\* a reader the marker can precede: it does not write the collection itself
\* and depends on none of its writers cyclically
PlainReader(c, j) ==
    /\ c \in map[j].reads
    /\ c \notin map[j].tags
    /\ \A i \in MapIdx : c \in map[i].tags => ~Reaches(map, j, i)

MarkerPlacedAcyclic(c) ==
    /\ \A i \in MapIdx : c \in map[i].tags => Before(map[i].path, Marker(c))
    /\ \A j \in MapIdx : PlainReader(c, j) => Before(Marker(c), map[j].path)

FixtureForward ==
    map = <<FixturePost("./post.md"), FixturePost("./another-post.md"),
            FixtureIndex("./index.md")>>
FixtureReverse ==
    map = <<FixtureIndex("./index.md"), FixturePost("./another-post.md"),
            FixturePost("./post.md")>>
FixtureOrders ==
    /\ FixtureForward => getTemplateOrder =
          <<"./post.md", "./another-post.md", "__collection:post",
            "__collection:[keys]", "./index.md", "__collection:all">>
    /\ FixtureReverse => getTemplateOrder =
          <<"./another-post.md", "./post.md", "__collection:post",
            "__collection:[keys]", "./index.md", "__collection:all">>

\* C5 (as stated): the marker of every named collection follows every writer
\* and precedes every reader of the collection, and the fixture of issue 975
\* yields the two expected orders.
C5_MarkersInterleaved ==
    Cached => /\ \A c \in SeenCollections(map) : MarkerPlaced(c)
              /\ FixtureOrders

\* C5 (amended): the marker of every named collection follows every writer of
\* the collection and precedes every reader that neither writes the
\* collection itself nor is mutually dependent with one of its writers, and
\* the fixture of issue 975 yields the two expected orders.
C5_MarkersInterleavedAcyclic ==
    Cached => /\ \A c \in SeenCollections(map) : MarkerPlacedAcyclic(c)
              /\ FixtureOrders

\* C5 witness: the fixture added in reverse, index.md still the last document
C5_Witness ==
    /\ Cached
    /\ FixtureReverse
    /\ order[5] = "./index.md"
    /\ Before("__collection:post", "./index.md")

\* ------------------------------------------------------------------------
\* Properties of a build pass
\* ------------------------------------------------------------------------
RenderBegun(p) == renderState[p] # "none"

\* C3: no map entry is rendered before templateMap.cache() has completed:
\* when the render of an entry B has started, every entry that writes to a
\* collection is in that collection, so the collections B reads are complete.
C3_NoRenderBeforeCache ==
    \A p \in Paths : RenderBegun(p) =>
        /\ tmState = "cached"
        /\ \A i \in 1..Len(map) : \A c \in Writes(map[i]) :
              \E k \in 1..Len(collections[c]) : collections[c][k] = map[i].path

\* C3 witness: index.md, which reads the post collection, is being rendered
\* and both posts are in the collection
C3_Witness ==
    /\ renderState["./index.md"] = "started"
    /\ collections["post"] \in {<<"./post.md", "./another-post.md">>,
                                <<"./another-post.md", "./post.md">>}

\* ------------------------------------------------------------------------
\* Properties of the compile cache and of the events
\* ------------------------------------------------------------------------
\* the compile cache is enabled and the key is cache-eligible
CacheOn == useTemplateCache /\ cacheable /\ useCache
StartedCalls == {c \in CallIds : Arrived(c)}
EngineDone(c) == calls[c].pc = "done" /\ calls[c].via = "engine"

\* C6: with the cache on, a compile() that starts after a compile() of the
\* same content on the same path under the same configuration instance has
\* returned (and nothing has removed the entry since) returns the same
\* function and does not invoke the engine's compile.
C6_SameContentSameFunction ==
    CacheOn => \A c \in StartedCalls : \A d \in calls[c].prior :
        /\ ~Invoked(c)
        /\ calls[c].awaiting # 0
        /\ calls[c].pc = "done" => calls[c].result = calls[d].result

\* C6 witness: the second of two sequential calls has returned the function
\* the first one compiled
C6_Witness ==
    /\ CacheOn
    /\ \E c \in StartedCalls : \E d \in calls[c].prior :
        /\ calls[c].pc = "done"
        /\ EngineDone(d)
        /\ calls[c].result = calls[d].result

\* C7: calls under two different configuration instances never share a
\* compiled function: neither is handed the other's cached promise, their
\* results differ, and for identical content on the same path the cache holds
\* two distinct entries.
C7_ConfigInstancesIsolated ==
    \A c \in StartedCalls, d \in StartedCalls :
        (c # d /\ calls[c].cfg # calls[d].cfg) =>
            /\ calls[c].awaiting # d
            /\ (calls[c].pc = "done" /\ calls[d].pc = "done")
                    => calls[c].result # calls[d].result
            /\ (/\ calls[c].path = calls[d].path
                /\ calls[c].str = calls[d].str
                /\ calls[c].valid /\ calls[d].valid)
                    => \E e1 \in compileEntries, e2 \in compileEntries :
                          /\ e1 # e2
                          /\ e1.path = calls[c].path /\ e1.key = KeyOf(c)
                          /\ e2.path = calls[d].path /\ e2.key = KeyOf(d)
                          /\ e1.key # e2.key

\* C7 witness: identical content on one path compiled under two instances,
\* both entries in the cache
C7_Witness ==
    \E c \in StartedCalls, d \in StartedCalls :
        /\ calls[c].cfg # calls[d].cfg
        /\ calls[c].path = calls[d].path
        /\ calls[c].str = calls[d].str
        /\ EngineDone(c) /\ EngineDone(d)
        /\ calls[c].valid /\ calls[d].valid
        /\ Cardinality({e \in compileEntries : e.path = calls[c].path}) = 2

\* C8: with the cache on, a compile() that starts while a compile() for the
\* same key is in flight awaits that call's placeholder: it does not invoke
\* the engine's compile and, once resolved, returns the first call's function.
C8_ConcurrentCompileShared ==
    CacheOn => \A c \in StartedCalls : \A d \in calls[c].joined :
        /\ calls[c].awaiting = d
        /\ ~Invoked(c)
        /\ calls[c].pc = "done" =>
              (calls[d].pc = "done" /\ calls[c].result = calls[d].result)

\* C8 witness: a call that joined an in-flight compile has resolved to its function
C8_Witness ==
    /\ CacheOn
    /\ \E c \in StartedCalls : \E d \in calls[c].joined :
        /\ calls[c].pc = "done"
        /\ EngineDone(d)
        /\ calls[c].result = calls[d].result

FailStep(c) == calls[c].pc = "compiling" /\ calls'[c].pc = "failed"

\* C9: when a compile() fails the cache holds no entry for its key afterwards
\* and the call ends with a compile error that carries the input path and the
\* cause; no later compile() is handed the placeholder of a failed call.
C9_FailureNotCached ==
    /\ [][\A c \in CallIds : FailStep(c) =>
            /\ \A e \in compileEntries' :
                  ~(e.path = calls[c].path /\ e.key = KeyOf(c))
            /\ calls'[c].error = [name |-> "TemplateContentCompileError",
                                  path |-> calls[c].path, cause |-> "EngineError"]]_vars
    /\ [](\A c \in StartedCalls : calls[c].via = "cache" => calls[c].holderPc # "failed")

\* C9 witness: after a failed compile, a later call with the same key has
\* compiled again
C9_Witness ==
    /\ CacheOn
    /\ \E c \in StartedCalls, d \in StartedCalls :
        /\ calls[c].pc = "failed"
        /\ calls[c].error.name = "TemplateContentCompileError"
        /\ SameKey(c, d)
        /\ EngineDone(d)
        /\ calls[d].valid

SameFile(p, q) == StripLeadingDotSlash(p) = StripLeadingDotSlash(q)
RawEntry(p) == "/cwd/" \o StripLeadingDotSlash(p)

\* C10: a resource-modified(path) event removes the raw-content entry of the
\* path and empties the nested compile-cache map of the path while keeping
\* the outer keys; the entries of every other path stay as they are.
C10_ResourceModifiedEffect ==
    [][\A ep \in EventPaths : ResourceModified(ep) =>
          /\ RawEntry(ep) \notin inputCache'
          /\ \A e \in compileEntries' : ~SameFile(e.path, ep)
          /\ compileOuter' = compileOuter
          /\ inputCache' \ {RawEntry(ep)} = inputCache \ {RawEntry(ep)}
          /\ {e \in compileEntries' : ~SameFile(e.path, ep)}
                = {e \in compileEntries : ~SameFile(e.path, ep)}]_vars

\* C10 witness: the event has emptied the nested map of ./post.md, whose
\* outer key is still there, and the entries of ./another-post.md remain
C10_Witness ==
    /\ \E c \in StartedCalls :
        /\ calls[c].path = InputPath(1)
        /\ EngineDone(c) /\ calls[c].hasRes /\ ~calls[c].valid
    /\ \A c \in StartedCalls : calls[c].pc # "failed"
    /\ InputPath(1) \in compileOuter
    /\ \A e \in compileEntries : e.path # InputPath(1)
    /\ \E e \in compileEntries : e.path = InputPath(2)
    /\ RawEntry(InputPath(1)) \notin inputCache
    /\ RawEntry(InputPath(2)) \in inputCache

\* C11: a compile-cache-reset event discards the whole compile cache: no path
\* has a nested map or an entry afterwards, and the raw-content cache is as
\* it was; a compile() that finds the cache in this state is a miss, it is
\* never handed a cached promise.
C11_CompileCacheResetEffect ==
    /\ [][CompileCacheReset =>
            /\ compileOuter' = {}
            /\ compileEntries' = {}
            /\ inputCache' = inputCache]_vars
    /\ [][\A c \in CallIds :
            (compileEntries = {} /\ calls[c].pc = "called" /\ calls'[c].pc # "called")
                => calls'[c].via # "cache"]_vars

\* C11 witness: after the reset the cache is empty although a compile had
\* stored an entry, and the raw content of a path is still cached
C11_Witness ==
    /\ compileOuter = {}
    /\ compileEntries = {}
    /\ \E c \in StartedCalls : EngineDone(c) /\ calls[c].hasRes
    /\ inputCache # {}

\* ------------------------------------------------------------------------
\* Properties of the memo fields of a document instance
\* ------------------------------------------------------------------------
\* resetCaches(arg) is asked to reset kind k: no argument, or k set to true
ResetAsked(arg, k) == ~arg.given \/ (k \in arg.keys /\ k \in arg.on)
\* what read() leaves on the instance: the raw content, the promise of the
\* parsed content, the front matter data and the parsed front matter
\* (_frontMatter, served by the frontMatter accessor)
ReadMemo(t) ==
    <<t.inputContent, t.readingPromise, t.frontMatterDataCache, t.frontMatter>>
ClearedReadMemo == <<0, 0, 0, "none">>

\* C12: resetCaches() without an argument resets the kinds data, read and
\* render; with an argument exactly the kinds it sets to true. Kind read
\* clears the cached raw content and the parsed metadata of the instance
\* (the parsed front matter included) and leaves the resolved data; without
\* kind read they stay as they are; the resolved data is cleared by kind
\* data only.
C12_ResetCachesKinds ==
    [][\A inst \in Insts, arg \in ResetArgs : ResetCaches(inst, arg) =>
          /\ \A k \in Kinds : getResetTypes(arg)[k] = ResetAsked(arg, k)
          /\ IF ResetAsked(arg, "read")
             THEN ReadMemo(tc'[inst]) = ClearedReadMemo
             ELSE ReadMemo(tc'[inst]) = ReadMemo(tc[inst])
          /\ IF ResetAsked(arg, "data")
             THEN ~tc'[inst].dataCache
             ELSE tc'[inst].dataCache = tc[inst].dataCache
          /\ \A other \in Insts \ {inst} : tc'[other] = tc[other]
          /\ inputCache' = inputCache]_vars

\* pairs of calls of the same function on the same instance with no
\* resetCaches of kind read in between
CallNos == 1..Len(rcalls)
Unreset(i, j) ==
    /\ i < j
    /\ rcalls[i].inst = rcalls[j].inst
    /\ rcalls[i].fn = rcalls[j].fn
    /\ rcalls[i].epoch = rcalls[j].epoch
Epochs == 0..resets
ParsesIn(inst, e) ==
    {id \in PromIds : /\ proms[id].kind = "read" /\ proms[id].inst = inst
                      /\ proms[id].epoch = e /\ proms[id].matter # "none"}
MergesIn(inst, e) ==
    {id \in PromIds : /\ proms[id].kind = "data" /\ proms[id].inst = inst
                      /\ proms[id].epoch = e /\ proms[id].merged}

\* C13 as stated: two calls of read() (or of getFrontMatterData()) on one
\* instance with no resetCaches of kind read in between return the same
\* promise, and the parse and the merge run at most once.
C13_SamePromiseReturned ==
    /\ \A i \in CallNos, j \in CallNos : Unreset(i, j) => rcalls[i].ret = rcalls[j].ret
    /\ \A inst \in Insts, e \in Epochs :
          Cardinality(ParsesIn(inst, e)) <= 1 /\ Cardinality(MergesIn(inst, e)) <= 1

\* C13 amended: two such calls return promises that settle with the same
\* memoized promise of the instance, and between two resetCaches of kind read
\* the metadata parse and the data merge of the instance run at most once.
C13_SameMemoizedPromise ==
    /\ \A i \in CallNos, j \in CallNos :
          Unreset(i, j) => rcalls[i].ret.adopts = rcalls[j].ret.adopts
    /\ \A inst \in Insts, e \in Epochs :
          Cardinality(ParsesIn(inst, e)) <= 1 /\ Cardinality(MergesIn(inst, e)) <= 1

\* C13 witness: two getFrontMatterData() calls were served by one promise,
\* which has resolved after one parse and one merge
C13_Witness ==
    \E i \in CallNos, j \in CallNos :
        /\ Unreset(i, j)
        /\ rcalls[i].fn = "data"
        /\ rcalls[i].ret.adopts = rcalls[j].ret.adopts
        /\ proms[rcalls[i].ret.adopts].merged
        /\ Cardinality(ParsesIn(rcalls[i].inst, rcalls[i].epoch)) = 1

FrontMatterError(inst) ==
    [name |-> "TemplateContentFrontMatterError", path |-> PathOf(inst),
     cause |-> ParserError]

\* C14: when the front matter parser throws, the promise of read() rejects
\* with a front matter error that names the input path and wraps the
\* parser's exception; the promise of getFrontMatterData() that awaits it
\* rejects with the same error, and no promise carries the bare exception.
C14_ParseErrorWrapped ==
    \A id \in PromIds :
        LET pr == proms[id]
        IN  /\ (pr.kind = "read" /\ pr.matter = "threw") =>
                  (pr.state = "rejected" /\ pr.error = FrontMatterError(pr.inst))
            /\ (/\ pr.kind = "data" /\ Settled(pr)
                /\ proms[pr.awaits].matter = "threw") =>
                  (pr.state = "rejected" /\ pr.error = FrontMatterError(pr.inst))
            /\ pr.error.name # ParserError

\* C14 witness: the parse of a document failed and its getFrontMatterData()
\* promise has rejected with the wrapped error
C14_Witness ==
    \E id \in PromIds :
        /\ proms[id].kind = "data"
        /\ proms[id].state = "rejected"
        /\ proms[proms[id].awaits].matter = "threw"
        /\ proms[id].error = FrontMatterError(proms[id].inst)

\* the content promise takes its cache lookup in this step
LooksUp(id) == proms[id].state = "init" /\ proms'[id].state # "init"

\* C20: with the template cache in use, a content request that finds the
\* path in the raw-content cache does not read the file: it resolves with
\* the cached content, also when that is the empty string and whichever
\* instance asks; only a request that does not find the path reads.
C20_CachedContentNotReadAgain ==
    [][\A id \in PromIds :
          (/\ LooksUp(id)
           /\ useTemplateCache
           /\ RawEntry(PathOf(proms[id].inst)) \in inputCache) =>
              /\ reading' = reading
              /\ proms'[id].state = "resolved"
              /\ proms'[id].from = "cache"
              /\ proms'[id].value = fileContent[PathOf(proms[id].inst)]]_vars

\* C20 witness: the empty content read by one instance was served from the
\* cache to the other instance
C20_Witness ==
    \E a \in PromIds, b \in PromIds :
        /\ proms[a].inst # proms[b].inst
        /\ proms[a].from = "file" /\ proms[a].value = ""
        /\ proms[b].from = "cache" /\ proms[b].value = ""

\* ------------------------------------------------------------------------
\* Properties of isFileRelevantToThisTemplate
\* ------------------------------------------------------------------------
Answered == query.phase = "answered"
ChangedPathGiven == query.incrementalFile # ""
NoCallbacks == \A i \in 1..Len(query.entries) : query.entries[i] = "plain"
DependsOrUnknown ==
    \/ query.isRelevant
    \/ (~query.hasDependencies /\ query.isFullTemplate # "true")

\* C15 as stated: with a changed path, the result is true exactly if the
\* engine reports the dependency, or the dependencies are unknown and the
\* changed path is not a full template.
C15_RelevantIffDependsOrUnknown ==
    (Answered /\ ChangedPathGiven) => (query.result <=> DependsOrUnknown)

\* C15 amended: that holds when no extension entry of the engine defines
\* isIncrementalMatch; when some do, the result is true exactly if one of
\* these callbacks returns true; without a changed path the result is true.
C15_RelevantByCallbacksOrFallback ==
    Answered =>
        IF ~ChangedPathGiven THEN query.result
        ELSE IF NoCallbacks THEN query.result <=> DependsOrUnknown
        ELSE query.result <=>
                \E i \in 1..Len(query.entries) :
                    \/ query.entries[i] = "always"
                    \/ query.entries[i] = "ifRelevant" /\ query.isRelevant

\* C15 witness: the dependencies are unknown, the changed path is no full
\* template, no callback is defined, and the answer is true
C15_Witness ==
    /\ Answered /\ ChangedPathGiven /\ NoCallbacks
    /\ ~query.isRelevant /\ ~query.hasDependencies
    /\ query.isFullTemplate = "false"
    /\ query.result

\* the build has settled and its render pass was run
PassRan == wpc = "idle" /\ buildState \in {"resolved", "rejected"}
                        /\ \E p \in Paths : renderState[p] # "none"

\* C16: every map entry whose render raised the premature-content error in
\* the main pass has been rendered once more, in a second pass, by the time
\* the build settles
C16_PrematureRenderedAgain ==
    PassRan => \A p \in tooEarly : secondState[p] \in {"ok", "failed"}


\* the documents whose main-pass render failed with an error other than the
\* premature-content error
FailedRenders == {p \in Paths : renderState[p] = "failed"}

\* C17 as stated: when the renders of several documents have failed, the
\* build is rejected with an error naming the output paths of every failing
\* document
C17_ErrorNamesEveryFailure ==
    (PassRan /\ Cardinality(FailedRenders) >= 2)
        => /\ buildState = "rejected"
           /\ \A p \in FailedRenders : OutputPaths(p) \subseteq buildError.outputPaths

\* C18: while the renders of a pass run, the render of every map entry has
\* been started, and every render still pending can run to completion,
\* whether or not a sibling has failed
C18_SiblingsNotAborted ==
    wpc = "rendering"
        => \A p \in Paths :
                /\ OnMap(p) => renderState[p] # "none"
                /\ renderState[p] = "started" => ENABLED WRenderSettles(p, 1, "ok")

C18_Witness ==
    /\ PassRan
    /\ \E q \in Paths :
            /\ buildError = TemplateError(q, "RenderError")
            /\ \A p \in Paths \ {q} : renderState[p] = "ok"

\* C19: when the front matter of one document cannot be parsed, every other
\* document of the build is still rendered and the error of the build names
\* the failing document only
C19_OthersStillRendered ==
    (wpc = "idle" /\ buildState = "rejected"
        /\ buildError.name = "TemplateContentFrontMatterError")
        => /\ \A q \in Paths \ {buildError.inputPath} : renderState[q] = "ok"
           /\ \E p \in Paths : buildError = AddError(p)


\* an incremental pass has classified its templates
IncrDone == ipc = "done" /\ incrementalFile # "" /\ incrementalFileShape # "copy"

\* ... with ignore-initial off
IncrRendering == IncrDone /\ isRunInitialBuild

\* the entry is relevant to the changed file (on the graph of this pass)
RelevantToChanged(p) == IsRelevant(uses, p, incrementalFile, incrementalFileShape)

\* the changed file depends on the entry
UsedByChangedFile(p) == IsFileUsedBy(uses, incrementalFile, p)

\* the entries that are not the changed file and relevant to it
FirstOrderSet == {q \in templates : q # incrementalFile /\ RelevantToChanged(q)}

\* the entry is a dependency, direct or not, of a first-order relevant entry
InSecondOrderClosure(p) ==
    NormalizeNode(p) \in DependenciesOf(uses, {NormalizeNode(q) : q \in FirstOrderSet}, {})

\* the engine of the documents has no isIncrementalMatch callback
NoIncrementalMatch == SelectSeq(engineEntries, HasIncrementalMatch) = <<>>

\* the three-document scenario, the changed file is another-post.md
ScenarioAnotherPost == IncrRendering /\ incrementalFile = "./another-post.md"

\* C21 as stated: in the scenario the pass ends with post.md at skip,
\* another-post.md at render and index.md at optional or render
C21_ScenarioPostSkipped ==
    ScenarioAnotherPost
        => /\ override["./post.md"] = "skip"
           /\ override["./another-post.md"] = "render"
           /\ override["./index.md"] \in {"optional", "render"}

\* C21: in the scenario (no isIncrementalMatch callback) the pass ends with
\* another-post.md at render, index.md at render because it reads the
\* collection of the changed file, and post.md at optional because index.md
\* reads the collection it feeds; index.md is never left at skip
C21_ScenarioPostOptional ==
    (ScenarioAnotherPost /\ NoIncrementalMatch)
        => /\ override["./post.md"] = "optional"
           /\ override["./another-post.md"] = "render"
           /\ override["./index.md"] = "render"

C21_Witness ==
    /\ ScenarioAnotherPost
    /\ NoIncrementalMatch
    /\ templates = Paths
    /\ override["./post.md"] = "optional"
    /\ override["./index.md"] = "render"
    /\ "./index.md" \in secondOrderRelevantLookup

\* C22: with ignore-initial off, the entry that is the changed full template
\* had its read and data caches reset before add() generated its data and
\* ends the pass with its override unset
C22_ChangedFileResetAndRendered ==
    (IncrRendering /\ incrementalFileShape = "template")
        => \A p \in templates :
                p = incrementalFile
                    => /\ {"read", "data"} \subseteq resetBeforeAdd[p]
                       /\ override[p] = "render"

C22_Witness ==
    /\ IncrRendering
    /\ incrementalFile \in templates
    /\ engineEntries = <<"never">>
    /\ {"read", "data"} \subseteq resetBeforeAdd[incrementalFile]
    /\ override[incrementalFile] = "render"
    /\ \E q \in templates : override[q] = "skip"

\* C23: with ignore-initial off, every entry that is not the changed file
\* and is relevant to it ends the pass at render and is in the first-order
\* relevant set
C23_RelevantRenderedAndRecorded ==
    IncrRendering
        => \A p \in templates :
                (p # incrementalFile /\ RelevantToChanged(p))
                    => /\ override[p] = "render"
                       /\ p \in secondOrderRelevantLookup

C23_Witness ==
    /\ IncrRendering
    /\ \E p \in templates :
            /\ p # incrementalFile
            /\ RelevantToChanged(p)
            /\ override[p] = "render"
            /\ p \in secondOrderRelevantLookup
    /\ \E q \in templates : q # incrementalFile /\ ~RelevantToChanged(q)

\* C24: with ignore-initial off, every entry that is neither the changed
\* file nor relevant to it but is used by the changed file ends the pass at
\* optional
C24_UsedByChangedOptional ==
    IncrRendering
        => \A p \in templates :
                (p # incrementalFile /\ ~RelevantToChanged(p) /\ UsedByChangedFile(p))
                    => override[p] = "optional"

C24_Witness ==
    /\ IncrRendering
    /\ \E p \in templates :
            /\ p # incrementalFile
            /\ ~RelevantToChanged(p)
            /\ UsedByChangedFile(p)
            /\ ~InSecondOrderClosure(p)
            /\ override[p] = "optional"

\* C25: with ignore-initial off, an entry ends the pass at skip exactly when
\* it is not the changed file, not relevant to it, not used by it and not
\* in the second-order closure of the first-order relevant set
C25_SkipIffUnrelated ==
    IncrRendering
        => \A p \in templates :
                override[p] = "skip"
                    <=> /\ p # incrementalFile
                        /\ ~RelevantToChanged(p)
                        /\ ~UsedByChangedFile(p)
                        /\ ~InSecondOrderClosure(p)

C25_Witness ==
    /\ IncrRendering
    /\ \E p, q, r \in templates :
            /\ override[p] = "skip"
            /\ override[q] = "optional" /\ InSecondOrderClosure(q)
            /\ override[r] = "render" /\ RelevantToChanged(r)

\* the entries of the pass at the given renderable states
TemplatesAt(states) == {p \in templates : override[p] \in states}

\* the step that ends the classification of an incremental pass whose
\* changed file is a template
TemplatePassEnds ==
    /\ ipc = "adding" /\ ipc' = "done"
    /\ incrementalFile # "" /\ incrementalFileShape = "template"

\* C26 as stated: over an incremental pass whose changed file is a template,
\* skippedCount grows by the number of entries at skip
C26_SkippedCountsSkip ==
    [][TemplatePassEnds =>
            skippedCount' - skippedCount =
                Cardinality({p \in templates : override'[p] = "skip"})]_vars

\* C26: over an incremental pass whose changed file is a template, with
\* ignore-initial off, skippedCount grows by the number of entries at skip
\* or optional
C26_SkippedCountsSkipAndOptional ==
    [][(TemplatePassEnds /\ isRunInitialBuild) =>
            skippedCount' - skippedCount =
                Cardinality({p \in templates : override'[p] \in {"skip", "optional"}})]_vars

\* a second pass without restart() in between: the count has grown twice
C26_Witness ==
    /\ IncrRendering
    /\ incrementalFileShape = "template"
    /\ passes = 2
    /\ TemplatesAt({"skip"}) # {}
    /\ TemplatesAt({"optional"}) # {}
    /\ skippedCount > Cardinality(TemplatesAt({"skip", "optional"}))

\* C27: with ignore-initial off, no entry of the second-order closure ends
\* the pass at skip: the entries of the closure the first classification
\* marked skip are at optional
C27_ClosureUpgraded ==
    IncrRendering
        => \A p \in templates :
                InSecondOrderClosure(p)
                    => /\ override[p] # "skip"
                       /\ Classify(uses, p, incrementalFile, incrementalFileShape) = "skip"
                            => override[p] = "optional"

C27_Witness ==
    /\ IncrRendering
    /\ \E p \in templates :
            /\ InSecondOrderClosure(p)
            /\ \A q \in FirstOrderSet : ~IsFileUsedBy(uses, q, p)
            /\ Classify(uses, p, incrementalFile, incrementalFileShape) = "skip"
            /\ override[p] = "optional"

\* the cache kinds of the entry reset during the pass
ResetInPass(p) == resetBeforeAdd[p] \cup resetAfterAdd[p]

\* C28: an entry that ends an incremental pass at render and is not the
\* changed file had its data and render caches reset and never its read
\* cache
C28_RenderedKeepsReadCache ==
    IncrRendering
        => \A p \in templates :
                (override[p] = "render" /\ p # incrementalFile)
                    => ResetInPass(p) = {"data", "render"}

\* C29 as stated: an entry that ends an incremental pass at optional or skip
\* had its data cache reset and no other cache
C29_UnrenderedResetsDataOnly ==
    IncrDone
        => \A p \in templates :
                override[p] \in {"optional", "skip"} => ResetInPass(p) = {"data"}

\* C29: with ignore-initial off, an entry that ends an incremental pass at
\* optional or skip had its data cache reset and no other cache
C29_UnrenderedResetsDataOnlyWhenRendering ==
    IncrRendering
        => \A p \in templates :
                override[p] \in {"optional", "skip"} => ResetInPass(p) = {"data"}

C29_Witness ==
    /\ IncrRendering
    /\ \E p, q \in templates :
            /\ override[p] = "optional" /\ ResetInPass(p) = {"data"}
            /\ override[q] = "skip" /\ ResetInPass(q) = {"data"}

\* C30: when ignore-initial is active every entry of the pass ends with its
\* render disabled, in a full and in an incremental build
C30_IgnoreInitialSkipsAll ==
    (ipc = "done" /\ ~isRunInitialBuild) => \A p \in templates : override[p] = "skip"

C30_Witness ==
    /\ ipc = "done"
    /\ ~isRunInitialBuild
    /\ incrementalFile \in templates
    /\ \E p \in templates : p # incrementalFile /\ RelevantToChanged(p)
    /\ \A p \in templates : override[p] = "skip"


\* C31 (as stated): the read/write sets of a pass are recorded in the global
\* dependency graph only after the ordering of that pass has been computed,
\* so when the graph has been written cache() has computed the order
C31_GraphWrittenAfterOrdering ==
    ipc = "done" => tmState # "open"

\* C31 (amended): the relationships are recorded once every add() of the pass
\* has resolved and before cache() computes the ordering: whenever the order
\* is being or has been computed, the graph already holds every relationship
\* of the entries on the map
C31_GraphWrittenBeforeOrdering ==
    /\ tmState # "open" => /\ ipc \in {"done", "idle"}
                           /\ pendingAdds = {}
                           /\ UsesOfMap(map) \subseteq uses
    /\ ipc = "adding" => tmState = "open"

C31_Witness ==
    /\ ipc = "done"
    /\ tmState = "caching"
    /\ Len(order) > 0
    /\ UsesOfMap(map) # {}
    /\ UsesOfMap(map) \subseteq uses

\* C32: a path has one Template instance for the life of the writer: the
\* first _createTemplate request constructs it and reports wasCached false,
\* every later request returns it with wasCached true; in a full build a
\* reused instance has all its caches reset before add() generates its data
C32_InstanceReusedAcrossPasses ==
    \A p \in Paths :
        /\ instances[p] <= 1
        /\ instances[p] = 1 <=> Len(wasCached[p]) >= 1
        /\ \A k \in 1..Len(wasCached[p]) : wasCached[p][k] <=> k >= 2
        /\ (/\ ipc # "idle"
            /\ incrementalFile = ""
            /\ incrementalFileShape # "copy"
            /\ Len(wasCached[p]) >= 2)
                => /\ resetBeforeAdd[p] = Kinds
                   /\ (p \in pendingAdds \/ OnMap(p))

C32_Witness ==
    \E p \in Paths :
        /\ ipc = "adding"
        /\ incrementalFile = ""
        /\ wasCached[p] = <<FALSE, TRUE>>
        /\ instances[p] = 1
        /\ resetBeforeAdd[p] = Kinds
        /\ p \in pendingAdds

\* the first classification of the entry in this pass, line 264-283
FirstClassification(p) == Classify(uses, p, incrementalFile, incrementalFileShape)

\* C35: the second-order propagation and the cache-reset loop only upgrade:
\* an entry first classified render ends the pass at render, one classified
\* optional ends at optional, and one classified skip ends at skip or optional
C35_OnlySkipIsUpgraded ==
    IncrRendering =>
        \A p \in templates :
            /\ FirstClassification(p) = "render" => override[p] = "render"
            /\ FirstClassification(p) = "optional" => override[p] = "optional"
            /\ FirstClassification(p) = "skip" => override[p] \in {"skip", "optional"}

C35_Witness ==
    /\ IncrRendering
    /\ \E p, q \in templates :
            /\ FirstClassification(p) = "render" /\ InSecondOrderClosure(p)
            /\ override[p] = "render"
            /\ FirstClassification(q) = "skip" /\ override[q] = "optional"

\* the override the pass at hand assigns to the entry: skip under
\* ignore-initial, render in a full build, the classification otherwise
AssignedInPass(p) ==
    IF ~isRunInitialBuild THEN "skip"
    ELSE IF incrementalFile = "" THEN "render"
    ELSE FinalState(uses, templates, p, incrementalFile, incrementalFileShape)

\* C36: at the end of every full or incremental pass the override of every
\* entry on the map is a value the pass assigned, one of render, optional
\* and skip, whatever the entry carried from the pass before
C36_OverrideAssignedInPass ==
    ipc = "done" =>
        \A p \in Paths :
            OnMap(p) => /\ p \in templates
                        /\ override[p] \in {"render", "optional", "skip"}
                        /\ override[p] = AssignedInPass(p)

C36_Witness ==
    /\ ipc = "done"
    /\ passes = 2
    /\ isRunInitialBuild
    /\ Len(map) = NumDocs
    /\ \E p, q \in Paths : override[p] = "render" /\ override[q] = "skip"

\* one of the isIncrementalMatch callbacks of the engine returns true
SomeCallbackMatches ==
    \E i \in 1..Len(query.entries) :
        HasIncrementalMatch(query.entries[i]) /\ IsIncrementalMatch(query.entries[i], query)

\* C37: isFileRelevantToThisTemplate is true for every document when no
\* changed file is set; when an extension entry defines isIncrementalMatch
\* the result is true exactly when one of these callbacks returns true, the
\* fallback and the relevance the engine reports are not applied by themselves
C37_CallbacksDecide ==
    Answered =>
        /\ ~ChangedPathGiven => query.result
        /\ (ChangedPathGiven /\ ~NoCallbacks) => (query.result <=> SomeCallbackMatches)

C37_Witness ==
    /\ Answered /\ ChangedPathGiven
    /\ query.entries = <<"plain", "never">>
    /\ query.isRelevant
    /\ ~query.result

\* the readingPromise behind the promise a call returned
ReadPromiseOf(i) ==
    IF rcalls[i].fn = "read" THEN rcalls[i].ret.adopts
    ELSE proms[rcalls[i].ret.adopts].awaits

\* the readingPromises and the getInputContent() calls of an instance between
\* two resets of kind read
ReadsIn(inst, e) ==
    {id \in PromIds : /\ proms[id].kind = "read" /\ proms[id].inst = inst
                      /\ proms[id].epoch = e}
RequestsIn(inst, e) ==
    {id \in PromIds : /\ proms[id].kind = "content" /\ proms[id].inst = inst
                      /\ proms[id].epoch = e /\ proms[id].from # "set"}

\* C38: a failed read is memoized: once the read behind a call has rejected,
\* every later read() or getFrontMatterData() on the instance is served by
\* the same rejected promise and settles with its error, with no further
\* getInputContent() call or parse, until resetCaches of kind read; a call
\* after that reset is served by a new read that takes its content anew (from
\* getInputContent(), or from the value setInputContent assigned after the
\* reset)
C38_FailedReadMemoized ==
    \A i \in CallNos, j \in CallNos :
        (/\ i < j
         /\ rcalls[i].inst = rcalls[j].inst
         /\ proms[ReadPromiseOf(i)].state = "rejected")
            => LET first == proms[ReadPromiseOf(i)]
                   later == proms[ReadPromiseOf(j)]
                   ret == proms[rcalls[j].ret.adopts]
               IN  IF rcalls[i].epoch = rcalls[j].epoch
                   THEN /\ ReadPromiseOf(j) = ReadPromiseOf(i)
                        /\ Settled(ret) => (ret.state = "rejected" /\ ret.error = first.error)
                        /\ Cardinality(ReadsIn(rcalls[i].inst, rcalls[i].epoch)) = 1
                        /\ Cardinality(RequestsIn(rcalls[i].inst, rcalls[i].epoch)) <= 1
                   ELSE /\ ReadPromiseOf(j) # ReadPromiseOf(i)
                        /\ later.awaits # first.awaits
                        /\ later.epoch > first.epoch
                        /\ (/\ first.matter = "threw"
                            /\ Settled(later)
                            /\ proms[later.awaits].state = "resolved")
                                => later.matter # "none"

C38_Witness ==
    \E i \in CallNos, j \in CallNos :
        /\ i < j
        /\ rcalls[i].inst = rcalls[j].inst
        /\ rcalls[i].epoch = rcalls[j].epoch
        /\ rcalls[j].fn = "data"
        /\ proms[ReadPromiseOf(i)].matter = "threw"
        /\ ReadPromiseOf(j) = ReadPromiseOf(i)
        /\ proms[rcalls[j].ret.adopts].state = "rejected"

\* the call is waiting: for the engine, or for the placeholder it was handed
InFlight(c) == calls[c].pc \in {"compiling", "awaiting"}
HasSettled(c) == calls[c].pc \in {"done", "failed"}

\* C33: every compile() call eventually settles, also one that was handed
\* the placeholder of a compile in flight whose owner then fails
C33_EveryCompileSettles ==
    \A c \in CallIds : InFlight(c) ~> HasSettled(c)

\* the compile of call c finishes in this step
Finishes(c) == calls[c].pc = "compiling" /\ calls'[c].pc \in {"done", "failed"}

\* no entry of the compile cache was created before an event that cleared
\* its path or replaced the cache
C34_NoEntryFromBeforeEvent ==
    \A e \in compileEntries : calls[e.holder].valid

\* a compile that finishes adds no entry to the compile cache
C34_FinishAddsNothing ==
    [][\A c \in CallIds : Finishes(c) => compileEntries' \subseteq compileEntries]_vars

\* a failing compile removes no placeholder but its own
C34_FailureEvictsOwnOnly ==
    [][\A c \in CallIds :
            (calls[c].pc = "compiling" /\ calls'[c].pc = "failed")
                => \A e \in compileEntries \ compileEntries' : e.holder = c]_vars

\* C34: a compile in flight when resource-modified(path) or
\* compile-cache-reset fires does not re-populate the cache when it finishes,
\* the cache then holds no entry created before the event, and a failing
\* compile removes only the placeholder it created itself, never one stored
\* for the same key by a later call
C34_InFlightCompileLeavesCacheAlone ==
    /\ []C34_NoEntryFromBeforeEvent
    /\ C34_FinishAddsNothing
    /\ C34_FailureEvictsOwnOnly

====
